---- MODULE Spec2Model ----
(***************************************************************************)
(* Model of idig's query/extraction engine: SearchParams::build_query,     *)
(* SearchService::search, FileRepositoryImpl::search and                   *)
(* ExtractService::extract with the file system it reads and writes.       *)
(*                                                                         *)
(* A Rust String is a sequence of one-character strings.  A path is a      *)
(* sequence of components (each a String); the file system is a function   *)
(* from absolute paths to nodes, the working directory being the root <<>>.*)
(***************************************************************************)
EXTENDS Integers, Sequences, FiniteSets, TLC

VARIABLES index, fs, pc, op, params, query, files, pos, result, ret, log, entries, changes

vars ==
  <<index, fs, pc, op, params, query, files, pos, result, ret, log, entries, changes>>

\* ------------------------------------------------------------------ bounds
\* Largest number of rows the index holds.
MaxRows == 3

\* Largest number of changes other tasks make to the file system while a call
\* waits.
MaxChanges == 1

\* ----------------------------------------------------------------- strings
Front(s) == SubSeq(s, 1, Len(s) - 1)

Last(s) == s[Len(s)]

Slash == "/"

Backslash == "\\"

DotDot == <<".", ".">>

Dot == <<".">>

\* str::starts_with(char)
starts_with(s, c) == Len(s) > 0 /\ s[1] = c

\* ASCII lower-casing of one character (str::to_lowercase, SQLite's LIKE folding).
to_lowercase_char(c) ==
  CASE c = "A" -> "a"
    [] c = "B" -> "b"
    [] c = "C" -> "c"
    [] c = "D" -> "d"
    [] c = "E" -> "e"
    [] c = "F" -> "f"
    [] c = "G" -> "g"
    [] OTHER -> c

to_lowercase(s) == [k \in 1..Len(s) |-> to_lowercase_char(s[k])]

\* Byte value of the characters the model uses (ordering is by byte value).
CharCode(c) ==
  CASE c = "%" -> 37 [] c = "-" -> 45 [] c = "." -> 46 [] c = "/" -> 47
    [] c = "0" -> 48 [] c = "1" -> 49 [] c = "9" -> 57
    [] c = "A" -> 65 [] c = "B" -> 66 [] c = "C" -> 67
    [] c = "D" -> 68 [] c = "E" -> 69 [] c = "F" -> 70
    [] c = "G" -> 71
    [] c = "\\" -> 92 [] c = "_" -> 95
    [] c = "a" -> 97 [] c = "b" -> 98 [] c = "c" -> 99
    [] c = "d" -> 100 [] c = "e" -> 101 [] c = "f" -> 102
    [] c = "g" -> 103 [] c = "k" -> 107 [] c = "o" -> 111
    [] c = "t" -> 116 [] c = "u" -> 117 [] c = "x" -> 120
    [] c = "é" -> 233

\* char::len_utf8: the bytes a character takes in a Rust string.
len_utf8(c) ==
  IF CharCode(c) < 128 THEN 1
  ELSE IF CharCode(c) < 2048 THEN 2
  ELSE IF CharCode(c) < 65536 THEN 3
  ELSE 4

\* str::len: the length of a string in bytes.
len(s) ==
  Len(s) + Cardinality({k \in 1..Len(s) : len_utf8(s[k]) = 2})
         + 2 * Cardinality({k \in 1..Len(s) : len_utf8(s[k]) = 3})
         + 3 * Cardinality({k \in 1..Len(s) : len_utf8(s[k]) = 4})

\* ------------------------------------------------------------- file system
DirNode == [kind |-> "dir", data |-> <<>>]

FileNode(bytes) == [kind |-> "file", data |-> bytes]

\* The kernel's path walk from directory cur: every component is looked up in
\* a directory that must exist; ".." steps to the parent.  The node reached
\* need not exist (the caller looks at it).
RECURSIVE walk(_, _, _)
walk(f, cur, comps) ==
  IF comps = <<>> THEN [err |-> "ok", at |-> cur]
  ELSE IF cur \notin DOMAIN f THEN [err |-> "ENOENT", at |-> cur]
  ELSE IF f[cur].kind # "dir" THEN [err |-> "ENOTDIR", at |-> cur]
  ELSE LET c == Head(comps)
           nxt == IF c = DotDot THEN (IF cur = <<>> THEN cur ELSE Front(cur))
                  ELSE IF c = Dot THEN cur
                  ELSE Append(cur, c)
       IN walk(f, nxt, Tail(comps))

\* Path::exists: the path resolves to a node.
exists(f, path) ==
  LET w == walk(f, <<>>, path) IN w.err = "ok" /\ w.at \in DOMAIN f

\* Path::is_dir
is_dir(f, path) ==
  LET w == walk(f, <<>>, path)
  IN w.err = "ok" /\ w.at \in DOMAIN f /\ f[w.at].kind = "dir"

\* mkdir(2) of one directory.
mkdir(f, path) ==
  LET w == walk(f, <<>>, Front(path))
      name == Last(path)
  IN IF w.err # "ok" THEN [fs |-> f, err |-> w.err]
     ELSE IF w.at \notin DOMAIN f THEN [fs |-> f, err |-> "ENOENT"]
     ELSE IF f[w.at].kind # "dir" THEN [fs |-> f, err |-> "ENOTDIR"]
     ELSE IF name = DotDot \/ name = Dot \/ Append(w.at, name) \in DOMAIN f
       THEN [fs |-> f, err |-> "EEXIST"]
     ELSE [fs |-> (Append(w.at, name) :> DirNode) @@ f, err |-> "ok"]

\* Mutant of create_dir_all: std::fs::create_dir, one mkdir whose every error
\* is a failure.
create_dir_all_strict(f, path) ==
  LET m == mkdir(f, path)
  IN [fs |-> m.fs, ok |-> m.err = "ok"]

\* std::fs::create_dir_all: mkdir, and on NotFound create the parent first.
RECURSIVE create_dir_all(_, _)
create_dir_all(f, path) ==
  IF path = <<>> THEN [fs |-> f, ok |-> TRUE]
  ELSE LET m1 == mkdir(f, path)
       IN IF m1.err = "ok" THEN [fs |-> m1.fs, ok |-> TRUE]
          ELSE IF m1.err # "ENOENT" THEN [fs |-> f, ok |-> is_dir(f, path)]
          ELSE LET p == create_dir_all(f, Front(path))
               IN IF ~p.ok THEN p
                  ELSE LET m2 == mkdir(p.fs, path)
                       IN IF m2.err = "ok" THEN [fs |-> m2.fs, ok |-> TRUE]
                          ELSE [fs |-> p.fs, ok |-> is_dir(p.fs, path)]

\* The destination half of std::fs::copy: open with write, create, truncate.
\* dirlike: the path text ends in a separator or in ".", so it names a directory.
open_to(f, path, dirlike) ==
  LET w == walk(f, <<>>, Front(path))
      name == Last(path)
      t == Append(w.at, name)
  IN IF w.err # "ok" \/ w.at \notin DOMAIN f THEN [fs |-> f, ok |-> FALSE, at |-> <<>>]
     ELSE IF f[w.at].kind # "dir" THEN [fs |-> f, ok |-> FALSE, at |-> <<>>]
     ELSE IF dirlike \/ name = DotDot \/ name = Dot
       THEN [fs |-> f, ok |-> FALSE, at |-> <<>>]
     ELSE IF t \in DOMAIN f /\ f[t].kind = "dir"
       THEN [fs |-> f, ok |-> FALSE, at |-> <<>>]
     ELSE [fs |-> (t :> FileNode(<<>>)) @@ f, ok |-> TRUE, at |-> t]

\* std::fs::copy: the source must be a regular file; the destination is opened
\* (created or truncated) and then receives the bytes read from the source.
copy(f, from, to, dirlike) ==
  LET s == walk(f, <<>>, from)
  IN IF s.err # "ok" \/ s.at \notin DOMAIN f THEN [fs |-> f, ok |-> FALSE]
     ELSE IF f[s.at].kind # "file" THEN [fs |-> f, ok |-> FALSE]
     ELSE LET o == open_to(f, to, dirlike)
          IN IF ~o.ok THEN [fs |-> f, ok |-> FALSE]
             ELSE [fs |-> (o.at :> FileNode(o.fs[s.at].data)) @@ o.fs, ok |-> TRUE]

\* ------------------------------------------------------------ std::path
\* The pieces of a path text between separators.
RECURSIVE split(_, _, _)
split(s, cur, acc) ==
  IF s = <<>> THEN Append(acc, cur)
  ELSE IF Head(s) = Slash THEN split(Tail(s), <<>>, Append(acc, cur))
  ELSE split(Tail(s), Append(cur, Head(s)), acc)

IsName(p) == p # <<>> /\ p # Dot

\* Path::components: empty pieces and "." are dropped, ".." is kept.
components(s) == SelectSeq(split(s, <<>>, <<>>), IsName)

\* The path text names a directory: it is empty or ends in "/" or in "/.".
dirlike(s) == ~IsName(Last(split(s, <<>>, <<>>)))

\* Path::join: an absolute argument replaces the base.
join(base, s) == IF starts_with(s, Slash) THEN components(s) ELSE base \o components(s)

\* Path::parent of a path with at least one component.
parent(path) == Front(path)

\* ------------------------------------------------------------ value objects
FileIdLen == 40

DomainMaxLen == 255

HexDigits == {"0", "1", "9", "a", "b", "c", "d", "e", "f", "A", "B", "C", "D", "E", "F"}

is_ascii_hexdigit(c) == c \in HexDigits

\* Mutant of FileId_new: the accepted string is stored as it came.
FileId_new_keep_case(id) ==
  IF id = <<>> THEN [ok |-> FALSE, value |-> <<>>]
  ELSE IF len(id) # FileIdLen THEN [ok |-> FALSE, value |-> <<>>]
  ELSE IF ~(\A k \in 1..Len(id) : is_ascii_hexdigit(id[k])) THEN [ok |-> FALSE, value |-> <<>>]
  ELSE [ok |-> TRUE, value |-> id]

\* FileId::new
FileId_new(id) ==
  IF id = <<>> THEN [ok |-> FALSE, value |-> <<>>]
  ELSE IF len(id) # FileIdLen THEN [ok |-> FALSE, value |-> <<>>]
  ELSE IF ~(\A k \in 1..Len(id) : is_ascii_hexdigit(id[k])) THEN [ok |-> FALSE, value |-> <<>>]
  ELSE [ok |-> TRUE, value |-> to_lowercase(id)]

Domain_new(domain) ==
  IF domain = <<>> THEN [ok |-> FALSE, value |-> <<>>]
  ELSE IF len(domain) > DomainMaxLen THEN [ok |-> FALSE, value |-> <<>>]
  ELSE [ok |-> TRUE, value |-> domain]

\* Mutant of RelativePath_new: only a leading '/' is rejected.
RelativePath_new_slash_only(path) ==
  IF starts_with(path, Slash) THEN [ok |-> FALSE, value |-> <<>>]
  ELSE [ok |-> TRUE, value |-> path]

RelativePath_new(path) ==
  IF starts_with(path, Slash) \/ starts_with(path, Backslash)
    THEN [ok |-> FALSE, value |-> <<>>]
  ELSE [ok |-> TRUE, value |-> path]

\* ---------------------------------------------------------------- FileFlags
REGULAR_FILE == 1

DIRECTORY == 2

SYMBOLIC_LINK == 4

HIDDEN == 8

SYSTEM == 16

ARCHIVE == 32

READ_ONLY == 64

COMPRESSED == 128

ENCRYPTED == 256

SPARSE == 512

\* The flags the bitflags! block defines.
DefinedFlags ==
  <<REGULAR_FILE, DIRECTORY, SYMBOLIC_LINK, HIDDEN, SYSTEM, ARCHIVE, READ_ONLY,
    COMPRESSED, ENCRYPTED, SPARSE>>

\* bits & flag for a one-bit flag, bits an i32 in two's complement.
bitand(bits, flag) == IF bits % (2 * flag) >= flag THEN flag ELSE 0

\* Mutant of from_bits_truncate: from_bits_retain, every bit is kept.
from_bits_retain(b) == b

\* FileFlags::from_bits_truncate: bits & FileFlags::all().bits().
from_bits_truncate(b) ==
  bitand(b, DefinedFlags[1]) + bitand(b, DefinedFlags[2]) + bitand(b, DefinedFlags[3])
    + bitand(b, DefinedFlags[4]) + bitand(b, DefinedFlags[5]) + bitand(b, DefinedFlags[6])
    + bitand(b, DefinedFlags[7]) + bitand(b, DefinedFlags[8]) + bitand(b, DefinedFlags[9])
    + bitand(b, DefinedFlags[10])

\* impl From<i32> for FileFlags
FileFlags_from(flags) == from_bits_truncate(flags)

\* FileFlags::bits and impl From<FileFlags> for i32
bits(flags) == flags

\* FileFlags::contains for a one-bit flag.
flags_contains(flags, flag) == bitand(flags, flag) = flag

is_regular_file(flags) == flags_contains(flags, REGULAR_FILE)

is_directory(flags) == flags_contains(flags, DIRECTORY)

is_symbolic_link(flags) == flags_contains(flags, SYMBOLIC_LINK)

is_hidden(flags) == flags_contains(flags, HIDDEN)

is_system(flags) == flags_contains(flags, SYSTEM)

is_archive(flags) == flags_contains(flags, ARCHIVE)

is_read_only(flags) == flags_contains(flags, READ_ONLY)

is_compressed(flags) == flags_contains(flags, COMPRESSED)

is_encrypted(flags) == flags_contains(flags, ENCRYPTED)

is_sparse(flags) == flags_contains(flags, SPARSE)

\* Model::to_domain: a row of the Files table becomes a File, or the
\* conversion fails on the first field a value object rejects.
to_domain(row) ==
  LET i == FileId_new(row.file_id)
      d == Domain_new(row.domain)
      r == RelativePath_new(row.relative_path)
  IN IF i.ok /\ d.ok /\ r.ok
       THEN [ok |-> TRUE,
             file |-> [file_id |-> i.value, domain |-> d.value, relative_path |-> r.value]]
       ELSE [ok |-> FALSE, file |-> [file_id |-> <<>>, domain |-> <<>>, relative_path |-> <<>>]]

\* ------------------------------------------------------------------ queries
None == <<"None">>

Some(v) == <<"Some", v>>

is_some(o) == o[1] = "Some"

unwrap(o) == o[2]

BasicQuery(tag, v) == [tag |-> tag, v |-> v]

Basic(bq) == [tag |-> "Basic", kind |-> "Basic", qs |-> <<bq>>]

\* FileQuery::any_of
any_of(queries) == [tag |-> "Composite", kind |-> "AnyOf", qs |-> queries]

\* FileQuery::all_of
all_of(queries) == [tag |-> "Composite", kind |-> "AllOf", qs |-> queries]

NoQuery == [tag |-> "none", kind |-> "none", qs |-> <<>>]

\* Mutant of conditions: a filter holding the empty string counts as absent.
conditions_skip_empty(p) ==
  (IF is_some(p.domain_exact) /\ unwrap(p.domain_exact) # <<>>
     THEN <<BasicQuery("DomainExact", unwrap(p.domain_exact))>> ELSE <<>>)
  \o (IF is_some(p.domain_contains) /\ unwrap(p.domain_contains) # <<>>
     THEN <<BasicQuery("DomainContains", unwrap(p.domain_contains))>> ELSE <<>>)
  \o (IF is_some(p.path_exact) /\ unwrap(p.path_exact) # <<>>
     THEN <<BasicQuery("PathExact", unwrap(p.path_exact))>> ELSE <<>>)
  \o (IF is_some(p.path_contains) /\ unwrap(p.path_contains) # <<>>
     THEN <<BasicQuery("PathContains", unwrap(p.path_contains))>> ELSE <<>>)

\* Mutant of conditions: the path filters are collected before the domain filters.
conditions_path_first(p) ==
  (IF is_some(p.path_exact)
     THEN <<BasicQuery("PathExact", unwrap(p.path_exact))>> ELSE <<>>)
  \o (IF is_some(p.path_contains)
     THEN <<BasicQuery("PathContains", unwrap(p.path_contains))>> ELSE <<>>)
  \o (IF is_some(p.domain_exact)
     THEN <<BasicQuery("DomainExact", unwrap(p.domain_exact))>> ELSE <<>>)
  \o (IF is_some(p.domain_contains)
     THEN <<BasicQuery("DomainContains", unwrap(p.domain_contains))>> ELSE <<>>)

\* The conditions build_query collects, in the order of its four tests.
conditions(p) ==
  (IF is_some(p.domain_exact)
     THEN <<BasicQuery("DomainExact", unwrap(p.domain_exact))>> ELSE <<>>)
  \o (IF is_some(p.domain_contains)
     THEN <<BasicQuery("DomainContains", unwrap(p.domain_contains))>> ELSE <<>>)
  \o (IF is_some(p.path_exact)
     THEN <<BasicQuery("PathExact", unwrap(p.path_exact))>> ELSE <<>>)
  \o (IF is_some(p.path_contains)
     THEN <<BasicQuery("PathContains", unwrap(p.path_contains))>> ELSE <<>>)

\* Mutant of build_query: use_or is read the wrong way round.
build_query_or_inverted(p) ==
  LET cs == conditions(p)
  IN IF cs = <<>>
       THEN [ok |-> FALSE, err |-> "At least one search condition must be specified",
             query |-> NoQuery]
     ELSE IF Len(cs) = 1 THEN [ok |-> TRUE, err |-> "", query |-> Basic(Head(cs))]
     ELSE IF p.use_or THEN [ok |-> TRUE, err |-> "", query |-> all_of(cs)]
     ELSE [ok |-> TRUE, err |-> "", query |-> any_of(cs)]

\* Mutant of build_query: an empty condition list is passed on as AllOf([]).
build_query_accepts_empty(p) ==
  LET cs == conditions(p)
  IN IF Len(cs) = 1 THEN [ok |-> TRUE, err |-> "", query |-> Basic(Head(cs))]
     ELSE IF p.use_or THEN [ok |-> TRUE, err |-> "", query |-> any_of(cs)]
     ELSE [ok |-> TRUE, err |-> "", query |-> all_of(cs)]

\* SearchParams::build_query
build_query(p) ==
  LET cs == conditions(p)
  IN IF cs = <<>>
       THEN [ok |-> FALSE, err |-> "At least one search condition must be specified",
             query |-> NoQuery]
     ELSE IF Len(cs) = 1
       THEN IF Len(cs) >= 1 THEN [ok |-> TRUE, err |-> "", query |-> Basic(Head(cs))]
            ELSE [ok |-> FALSE, err |-> "Internal error: expected exactly one condition",
                  query |-> NoQuery]
     ELSE IF p.use_or THEN [ok |-> TRUE, err |-> "", query |-> any_of(cs)]
     ELSE [ok |-> TRUE, err |-> "", query |-> all_of(cs)]

\* ------------------------------------------------- FileRepositoryImpl::search
\* SQLite's LIKE: "%" matches any run of characters, "_" any one character,
\* every other character matches itself without regard to ASCII case.
RECURSIVE like(_, _)
like(pat, s) ==
  IF pat = <<>> THEN s = <<>>
  ELSE IF Head(pat) = "%"
    THEN \E k \in 0..Len(s) : like(Tail(pat), SubSeq(s, k + 1, Len(s)))
  ELSE /\ s # <<>>
       /\ \/ Head(pat) = "_"
          \/ to_lowercase_char(Head(pat)) = to_lowercase_char(Head(s))
       /\ like(Tail(pat), Tail(s))

\* ColumnTrait::contains(v): column LIKE '%v%', v pasted into the pattern as is.
contains(column, v) == like(<<"%">> \o v \o <<"%">>, column)

\* Mutant of eq: the comparison ignores ASCII case.
eq_ignore_case(column, v) == to_lowercase(column) = to_lowercase(v)

\* ColumnTrait::eq(v): column = v
eq(column, v) == column = v

\* The condition one BasicQuery puts on a row.
basic_condition(bq, row) ==
  CASE bq.tag = "DomainExact" -> eq(row.domain, bq.v)
    [] bq.tag = "DomainContains" -> contains(row.domain, bq.v)
    [] bq.tag = "PathExact" -> eq(row.relative_path, bq.v)
    [] bq.tag = "PathContains" -> contains(row.relative_path, bq.v)

apply_basic_query(bq, row) == basic_condition(bq, row)

\* Mutant of apply_composite_query: AllOf joins its predicates with OR.
apply_composite_query_all_as_any(q, row) ==
  IF q.qs = <<>> THEN TRUE
  ELSE \E k \in 1..Len(q.qs) : basic_condition(q.qs[k], row)

\* Mutant of apply_composite_query: an empty AnyOf selects nothing.
apply_composite_query_empty_any_none(q, row) ==
  IF q.kind = "AnyOf"
    THEN \E k \in 1..Len(q.qs) : basic_condition(q.qs[k], row)
    ELSE \A k \in 1..Len(q.qs) : basic_condition(q.qs[k], row)

\* apply_composite_query: the predicates joined with OR (AnyOf) or AND
\* (AllOf); an empty list leaves the select without a WHERE clause.
apply_composite_query(q, row) ==
  IF q.kind = "AnyOf"
    THEN IF q.qs = <<>> THEN TRUE
         ELSE \E k \in 1..Len(q.qs) : basic_condition(q.qs[k], row)
    ELSE IF q.qs = <<>> THEN TRUE
         ELSE \A k \in 1..Len(q.qs) : basic_condition(q.qs[k], row)

\* The WHERE clause of the select built for a query.
matches(q, row) ==
  IF q.tag = "Basic" THEN apply_basic_query(q.qs[1], row)
  ELSE apply_composite_query(q, row)

\* Byte-wise string order (SQLite's BINARY collation).
RECURSIVE str_lt(_, _)
str_lt(a, b) ==
  IF b = <<>> THEN FALSE
  ELSE IF a = <<>> THEN TRUE
  ELSE IF CharCode(Head(a)) # CharCode(Head(b)) THEN CharCode(Head(a)) < CharCode(Head(b))
  ELSE str_lt(Tail(a), Tail(b))

\* Mutant of order_le: the relative path is the first sort key.
order_le_path_first(r1, r2) ==
  \/ str_lt(r1.relative_path, r2.relative_path)
  \/ /\ r1.relative_path = r2.relative_path
     /\ ~str_lt(r2.domain, r1.domain)

\* ORDER BY domain ASC, relativePath ASC
order_le(r1, r2) ==
  \/ str_lt(r1.domain, r2.domain)
  \/ /\ r1.domain = r2.domain
     /\ ~str_lt(r2.relative_path, r1.relative_path)

\* The row lists the select may return: every matching row once, in an order
\* the ORDER BY allows (rows equal in both keys come in any order).
select_all(q, idx) ==
  LET hit == {row \in idx : matches(q, row)}
      n == Cardinality(hit)
  IN {s \in [1..n -> hit] :
        /\ \A a, b \in 1..n : a # b => s[a] # s[b]
        /\ \A a \in 1..n : \A b \in (a + 1)..n : order_le(s[a], s[b])}

\* Mutant of search_rows: a row a value object rejects is left out.
search_rows_skip_invalid(models) ==
  LET good == SelectSeq(models, LAMBDA row : to_domain(row).ok)
  IN [ok |-> TRUE, err |-> "",
      files |-> [k \in 1..Len(good) |-> to_domain(good[k]).file]]

\* FileRepositoryImpl::search on a reachable store, for one returned row list.
search_rows(models) ==
  IF \A k \in 1..Len(models) : to_domain(models[k]).ok
    THEN [ok |-> TRUE, err |-> "", files |-> [k \in 1..Len(models) |-> to_domain(models[k]).file]]
    ELSE [ok |-> FALSE, err |-> "to_domain", files |-> <<>>]

\* The outcomes of FileRepository::search: the store cannot be queried, or one
\* of the row lists is converted.
search(q, idx, reachable) ==
  IF ~reachable THEN {[ok |-> FALSE, err |-> "db", files |-> <<>>]}
  ELSE {search_rows(models) : models \in select_all(q, idx)}

\* ------------------------------------------------------------ ExtractService
\* backup_dir and output_dir of the call, relative to the working directory.
BackupDir == <<<<"b", "a", "k">>>>

OutputDir == <<<<"o", "u", "t">>>>

\* Mutant of source_path: the fan-out directory is the first character only.
source_path_short_prefix(file) ==
  join(join(BackupDir, SubSeq(file.file_id, 1, 1)), file.file_id)

\* backup_dir/XX/fileID, XX the first two characters of the file id.
source_path(file) == join(join(BackupDir, SubSeq(file.file_id, 1, 2)), file.file_id)

\* Mutant of dest_path: the files of a domain go under a directory of its name.
dest_path_by_domain(file) == join(Append(OutputDir, file.domain), file.relative_path)

\* Mutant of dest_path: only the file name of the relative path is kept.
dest_path_flat(file) ==
  IF components(file.relative_path) = <<>> THEN OutputDir
  ELSE Append(OutputDir, Last(components(file.relative_path)))

\* output_dir joined with the relative path.
dest_path(file) == join(OutputDir, file.relative_path)

MsgParent == "Failed to create parent directory"

MsgCopy == "Failed to copy file"

\* Mutant of extract_single_file: the parent directories are created before
\* the source is looked for.
extract_single_file_mkdir_first(f, file) ==
  LET m == create_dir_all(f, parent(dest_path(file)))
  IN IF ~m.ok THEN [fs |-> m.fs, r |-> MsgParent]
     ELSE IF ~exists(m.fs, source_path(file)) THEN [fs |-> m.fs, r |-> "skipped"]
     ELSE LET c == copy(m.fs, source_path(file), dest_path(file),
                        dirlike(file.relative_path))
          IN IF ~c.ok THEN [fs |-> c.fs, r |-> MsgCopy]
             ELSE [fs |-> c.fs, r |-> "extracted"]

\* Mutant of extract_single_file: a record with the empty relative path is
\* passed over as if its blob were missing.
extract_single_file_skip_root(f, file) ==
  IF ~exists(f, source_path(file)) \/ file.relative_path = <<>>
    THEN [fs |-> f, r |-> "skipped"]
  ELSE LET m == create_dir_all(f, parent(dest_path(file)))
       IN IF ~m.ok THEN [fs |-> m.fs, r |-> MsgParent]
          ELSE LET c == copy(m.fs, source_path(file), dest_path(file),
                             dirlike(file.relative_path))
               IN IF ~c.ok THEN [fs |-> c.fs, r |-> MsgCopy]
                  ELSE [fs |-> c.fs, r |-> "extracted"]

\* ExtractService::extract_single_file: the file system it leaves and
\* "extracted" for Ok(true), "skipped" for Ok(false), else the error's message.
extract_single_file(f, file) ==
  IF ~exists(f, source_path(file)) THEN [fs |-> f, r |-> "skipped"]
  ELSE LET m == create_dir_all(f, parent(dest_path(file)))
       IN IF ~m.ok THEN [fs |-> m.fs, r |-> MsgParent]
          ELSE LET c == copy(m.fs, source_path(file), dest_path(file),
                             dirlike(file.relative_path))
               IN IF ~c.ok THEN [fs |-> c.fs, r |-> MsgCopy]
                  ELSE [fs |-> c.fs, r |-> "extracted"]

ExtractError(file, e) ==
  [file_id |-> file.file_id, relative_path |-> file.relative_path, error |-> e]

ZeroResult == [extracted_count |-> 0, skipped_count |-> 0, errors |-> <<>>]

\* Mutant of record_outcome: a failed file is also counted as skipped.
record_outcome_error_skips(res, file, r) ==
  IF r = "extracted" THEN [res EXCEPT !.extracted_count = @ + 1]
  ELSE IF r = "skipped" THEN [res EXCEPT !.skipped_count = @ + 1]
  ELSE [res EXCEPT !.errors = Append(@, ExtractError(file, r)),
                   !.skipped_count = @ + 1]

\* Mutant of record_outcome: a new error entry is put in front of the list.
record_outcome_errors_first(res, file, r) ==
  IF r = "extracted" THEN [res EXCEPT !.extracted_count = @ + 1]
  ELSE IF r = "skipped" THEN [res EXCEPT !.skipped_count = @ + 1]
  ELSE [res EXCEPT !.errors = <<ExtractError(file, r)>> \o @]

\* The match arm of the extraction loop for one outcome.
record_outcome(res, file, r) ==
  IF r = "extracted" THEN [res EXCEPT !.extracted_count = @ + 1]
  ELSE IF r = "skipped" THEN [res EXCEPT !.skipped_count = @ + 1]
  ELSE [res EXCEPT !.errors = Append(@, ExtractError(file, r))]

\* ------------------------------------------------------------------- inputs
Id(c) == [k \in 1..FileIdLen |-> IF k <= 2 THEN c ELSE "0"]

Row(id, domain, path) == [file_id |-> id, domain |-> domain, relative_path |-> path]

\* Rows the index may hold: two with the same relative path, one whose path is
\* a directory of another, one at the logical root, one that climbs out of the
\* destination with "..".
RowPool ==
  { Row(Id("a"), <<"A">>, <<"d", "/", "f">>),
    Row(Id("b"), <<"A">>, <<"d", "/", "f">>),
    Row(Id("c"), <<"B">>, <<"d">>),
    Row(Id("d"), <<"B">>, <<>>),
    Row(Id("e"), <<"a", ".", "b">>,
        <<".", ".", "/", "b", "a", "k", "/", "a", "a", "/">> \o Id("a")) }

\* The bytes of the blob stored for a file id.
BlobData(id) == <<id[1]>>

RECURSIVE with_blobs(_, _)
with_blobs(f, ids) ==
  IF ids = {} THEN f
  ELSE LET id == CHOOSE x \in ids : TRUE
           dir == Append(BackupDir, SubSeq(id, 1, 2))
       IN with_blobs((dir :> DirNode) @@ (Append(dir, id) :> FileNode(BlobData(id))) @@ f,
                     ids \ {id})

BaseFs == (<<>> :> DirNode) @@ (BackupDir :> DirNode)

OutD == Append(OutputDir, <<"d">>)

\* What is at the destination before the call.
OutStates == {"absent", "dir", "file", "d is a file", "d/f is a file"}

with_out(f, o) ==
  CASE o = "absent" -> f
    [] o = "dir" -> (OutputDir :> DirNode) @@ f
    [] o = "file" -> (OutputDir :> FileNode(<<"x">>)) @@ f
    [] o = "d is a file" -> (OutputDir :> DirNode) @@ (OutD :> FileNode(<<"x">>)) @@ f
    [] o = "d/f is a file" ->
         (OutputDir :> DirNode) @@ (OutD :> DirNode) @@ (Append(OutD, <<"f">>) :> FileNode(<<"x">>)) @@ f

\* The search parameters of a call.
ParamsSet ==
  [domain_exact : {None, Some(<<"A">>)}, domain_contains : {None, Some(<<"a">>)},
   path_exact : {None, Some(<<>>)}, path_contains : {None, Some(<<"d">>)},
   use_or : BOOLEAN]

NoParams ==
  [domain_exact |-> None, domain_contains |-> None, path_exact |-> None,
   path_contains |-> None, use_or |-> FALSE]

Pending == [status |-> "pending", err |-> ""]

Ok == [status |-> "Ok", err |-> ""]

Err(e) == [status |-> "Err", err |-> e]

\* The node stored at backup_dir/<first two characters of the id>/<id>.
BlobPath(file) == BackupDir \o <<SubSeq(file.file_id, 1, 2), file.file_id>>

HasBlob(f, file) == BlobPath(file) \in DOMAIN f

\* ------------------------------------------------------------ state machine
\* log is a history of the loop: for each record handled, whether its blob was
\* there and what extract_single_file returned.
Init ==
  /\ index \in {S \in SUBSET RowPool : Cardinality(S) <= MaxRows}
  /\ \E present \in SUBSET {row.file_id : row \in index} :
       \E o \in OutStates : fs = with_out(with_blobs(BaseFs, present), o)
  /\ pc = "idle"
  /\ op = "none"
  /\ params = NoParams
  /\ query = NoQuery
  /\ files = <<>>
  /\ pos = 0
  /\ result = ZeroResult
  /\ ret = Pending
  /\ log = <<>>
  /\ entries = <<>>
  /\ changes = 0

\* SearchService::search up to its wait for the repository: build the query
\* and hand it to file_repo.search.
SearchBegin(p) ==
  /\ pc = "idle"
  /\ op' = "search"
  /\ params' = p
  /\ LET b == build_query(p)
     IN IF ~b.ok
          THEN /\ ret' = Err(b.err)
               /\ pc' = "done"
               /\ UNCHANGED query
          ELSE /\ query' = b.query
               /\ pc' = "searching"
               /\ ret' = Pending
  /\ UNCHANGED <<index, fs, files, pos, result, log, entries, changes>>

\* SearchService::search from the answer of the repository on: the answer is
\* returned as it is.
SearchReturn ==
  /\ pc = "searching"
  /\ op = "search"
  /\ pc' = "done"
  /\ \E reachable \in BOOLEAN :
       \E r \in search(query, index, reachable) :
         /\ files' = r.files
         /\ ret' = IF r.ok THEN Ok ELSE Err(r.err)
  /\ UNCHANGED <<index, fs, op, params, query, pos, result, log, entries, changes>>

\* Mutant of ExtractBegin: the output directory is created before the search.
ExtractBegin_mkdir_first(p) ==
  /\ pc = "idle"
  /\ op' = "extract"
  /\ params' = p
  /\ LET b == build_query(p)
         m == create_dir_all(fs, OutputDir)
     IN IF ~b.ok
          THEN /\ ret' = Err(b.err)
               /\ pc' = "done"
               /\ UNCHANGED <<query, fs>>
          ELSE /\ query' = b.query
               /\ fs' = m.fs
               /\ IF m.ok
                    THEN pc' = "searching" /\ ret' = Pending
                    ELSE pc' = "done" /\ ret' = Err("Failed to create output directory")
  /\ UNCHANGED <<index, files, pos, result, log, entries, changes>>

\* ExtractService::extract up to its wait for the repository: build the query
\* and hand it to repository.search.
ExtractBegin(p) ==
  /\ pc = "idle"
  /\ op' = "extract"
  /\ params' = p
  /\ LET b == build_query(p)
     IN IF ~b.ok
          THEN /\ ret' = Err(b.err)
               /\ pc' = "done"
               /\ UNCHANGED query
          ELSE /\ query' = b.query
               /\ pc' = "searching"
               /\ ret' = Pending
  /\ UNCHANGED <<index, fs, files, pos, result, log, entries, changes>>

\* ExtractService::extract from the answer of the repository to the loop:
\* return the search error, return at once on an empty match set, create the
\* output directory.
ExtractSearched ==
  /\ pc = "searching"
  /\ op = "extract"
  /\ \E reachable \in BOOLEAN :
       \E r \in search(query, index, reachable) :
         IF ~r.ok
           THEN /\ ret' = Err("Failed to search for files")
                /\ pc' = "done"
                /\ UNCHANGED <<files, fs, pos>>
         ELSE IF r.files = <<>>
           THEN /\ ret' = Ok
                /\ pc' = "done"
                /\ files' = r.files
                /\ UNCHANGED <<fs, pos>>
         ELSE LET m == create_dir_all(fs, OutputDir)
              IN /\ files' = r.files
                 /\ fs' = m.fs
                 /\ IF m.ok
                      THEN /\ pc' = "loop"
                           /\ pos' = 1
                           /\ ret' = Pending
                      ELSE /\ pc' = "done"
                           /\ ret' = Err("Failed to create output directory")
                           /\ UNCHANGED pos
  /\ result' = ZeroResult
  /\ UNCHANGED <<index, op, params, query, log, entries, changes>>

\* While a call waits for the repository, another task of the runtime puts a
\* directory or a regular file where the output directory goes, or takes away
\* an output directory that is there and empty.
OtherTask ==
  /\ pc = "searching"
  /\ changes < MaxChanges
  /\ \/ /\ OutputDir \notin DOMAIN fs
        /\ \E node \in {DirNode, FileNode(<<"x">>)} : fs' = (OutputDir :> node) @@ fs
     \/ /\ OutputDir \in DOMAIN fs
        /\ \A q \in DOMAIN fs : ~(Len(q) > 1 /\ q[1] = OutputDir[1])
        /\ fs' = [q \in DOMAIN fs \ {OutputDir} |-> fs[q]]
  /\ changes' = changes + 1
  /\ UNCHANGED <<index, pc, op, params, query, files, pos, result, ret, log, entries>>

\* One iteration of the loop over the matched files.
ExtractFile ==
  /\ pc = "loop"
  /\ pos <= Len(files)
  /\ LET e == extract_single_file(fs, files[pos])
     IN /\ fs' = e.fs
        /\ result' = record_outcome(result, files[pos], e.r)
        /\ log' = Append(log, [present |-> HasBlob(fs, files[pos]), r |-> e.r])
  /\ pos' = pos + 1
  /\ UNCHANGED <<index, pc, op, params, query, files, ret, entries, changes>>

\* The loop is over: Ok(result).
ExtractReturn ==
  /\ pc = "loop"
  /\ pos > Len(files)
  /\ pc' = "done"
  /\ ret' = Ok
  /\ UNCHANGED <<index, fs, op, params, query, files, pos, result, log, entries, changes>>

\* One call of ExtractService::extract.
Next ==
  \/ \E p \in ParamsSet : ExtractBegin(p)
  \/ ExtractSearched
  \/ OtherTask
  \/ ExtractFile
  \/ ExtractReturn

Spec == Init /\ [][Next]_vars

\* ------------------------------------------------ the two services together
\* One call of SearchService::search or of ExtractService::extract, on a
\* backup that holds the blob of every row and a destination that is absent
\* or an empty directory.
InitServices ==
  /\ index \in {S \in SUBSET RowPool : Cardinality(S) <= MaxRows}
  /\ \E o \in {"absent", "dir"} :
       fs = with_out(with_blobs(BaseFs, {row.file_id : row \in index}), o)
  /\ pc = "idle"
  /\ op = "none"
  /\ params = NoParams
  /\ query = NoQuery
  /\ files = <<>>
  /\ pos = 0
  /\ result = ZeroResult
  /\ ret = Pending
  /\ log = <<>>
  /\ entries = <<>>
  /\ changes = 0

NextServices ==
  \/ \E p \in ParamsSet : SearchBegin(p)
  \/ SearchReturn
  \/ \E p \in ParamsSet : ExtractBegin(p)
  \/ ExtractSearched
  \/ OtherTask
  \/ ExtractFile
  \/ ExtractReturn

SpecServices == InitServices /\ [][NextServices]_vars

\* ------------------------------------------------- build_query on its own
BuildParamsSet ==
  LET BuildOption == {None, Some(<<>>), Some(<<"A">>), Some(<<"d">>)}
  IN [domain_exact : BuildOption, domain_contains : BuildOption,
      path_exact : BuildOption, path_contains : BuildOption, use_or : BOOLEAN]

InitBuild ==
  /\ params \in BuildParamsSet
  /\ pc = "build"
  /\ op = "build_query"
  /\ index = {}
  /\ fs = BaseFs
  /\ query = NoQuery
  /\ files = <<>>
  /\ pos = 0
  /\ result = ZeroResult
  /\ ret = Pending
  /\ log = <<>>
  /\ entries = <<>>
  /\ changes = 0

\* SearchParams::build_query applied to the parameters.
BuildQuery ==
  /\ pc = "build"
  /\ pc' = "built"
  /\ query' = build_query(params).query
  /\ ret' = IF build_query(params).ok THEN Ok ELSE Err(build_query(params).err)
  /\ UNCHANGED <<index, fs, op, params, files, pos, result, log, entries, changes>>

NextBuild == BuildQuery

SpecBuild == InitBuild /\ [][NextBuild]_vars

\* ------------------------------------- FileRepositoryImpl::search on its own
\* The longest predicate list of a composite query that is drawn.
MaxPreds == 2

\* Rows of the Files table: two that differ only in file id, domains that
\* differ only in case, a domain and a path holding '%' and '_', an empty
\* relative path, a row whose empty domain Domain::new rejects, and a row
\* whose domain of 128 two-byte characters is 256 bytes long.
SearchRowPool ==
  { Row(Id("a"), <<"A", "b">>, <<"d", "/", "f">>),
    Row(Id("b"), <<"a", "b">>, <<>>),
    Row(Id("c"), <<"A", "b">>, <<"d", "/", "f">>),
    Row(Id("d"), <<"a", "%", "b">>, <<"d", "_", "f">>),
    Row(Id("e"), <<>>, <<"d", "/", "f">>),
    Row(Id("f"), <<"a", "b">>, <<"d">>),
    Row(Id("9"), [k \in 1..128 |-> "é"], <<"d">>) }

\* The predicates composite queries are built from.
CompositePreds ==
  { BasicQuery("DomainExact", <<"A", "b">>),
    BasicQuery("DomainContains", <<"a", "b">>),
    BasicQuery("DomainContains", <<"%">>),
    BasicQuery("PathExact", <<>>),
    BasicQuery("PathContains", <<"d">>) }

PredLists == UNION {[1..n -> CompositePreds] : n \in 0..MaxPreds}

\* The well-formed queries handed to the repository.
QuerySet ==
  {Basic(BasicQuery(t, v)) :
     t \in {"DomainExact", "DomainContains", "PathExact", "PathContains"},
     v \in {<<>>, <<"a", "b">>, <<"A", "b">>, <<"%">>, <<"_">>, <<"d">>}}
    \cup {any_of(qs) : qs \in PredLists}
    \cup {all_of(qs) : qs \in PredLists}

InitSearch ==
  /\ index \in {i \in SUBSET SearchRowPool : Cardinality(i) <= MaxRows}
  /\ query \in QuerySet
  /\ pc = "query"
  /\ op = "repo_search"
  /\ params = NoParams
  /\ fs = BaseFs
  /\ files = <<>>
  /\ pos = 0
  /\ result = ZeroResult
  /\ ret = Pending
  /\ log = <<>>
  /\ entries = <<>>
  /\ changes = 0

\* FileRepositoryImpl::search up to its wait for the store: the select is
\* built from the query, given its order and sent.
RepoSearchBegin ==
  /\ pc = "query"
  /\ pc' = "waiting"
  /\ UNCHANGED <<index, fs, op, params, query, files, pos, result, ret, log, entries, changes>>

\* FileRepositoryImpl::search from the answer of the store on: the error of
\* the store is returned, or the rows it read are converted one by one.
RepoSearchFetched ==
  /\ pc = "waiting"
  /\ pc' = "searched"
  /\ \E reachable \in BOOLEAN :
       \E r \in search(query, index, reachable) :
         /\ files' = r.files
         /\ ret' = IF r.ok THEN Ok ELSE Err(r.err)
  /\ UNCHANGED <<index, fs, op, params, query, pos, result, log, entries, changes>>

\* While the search waits for the store, another writer of the store adds a
\* row to the table or takes one away; the store reads the table as it is
\* when it answers.
OtherWriter ==
  /\ pc = "waiting"
  /\ \E row \in SearchRowPool :
       /\ index' = IF row \in index THEN index \ {row} ELSE index \cup {row}
       /\ Cardinality(index') <= MaxRows
  /\ UNCHANGED <<fs, pc, op, params, query, files, pos, result, ret, log, entries, changes>>

NextSearch ==
  \/ RepoSearchBegin
  \/ RepoSearchFetched
  \/ OtherWriter

SpecSearch == InitSearch /\ [][NextSearch]_vars

\* ------------------------------------------------ value objects on their own
Rep(c, n) == [k \in 1..n |-> c]

\* Strings around the length of a file id: every digit class, a non-digit,
\* and a two-byte character that brings a shorter string to 40 bytes.
FileIdInputs ==
  {Rep(c, n) : c \in {"a", "F", "9", "g", "G"},
               n \in {0, 1, FileIdLen - 1, FileIdLen, FileIdLen + 1}}
    \cup {Rep("é", n) : n \in {FileIdLen \div 2, FileIdLen}}
    \cup {<<"A", "b">> \o Rep("0", FileIdLen - 2),
          <<"é">> \o Rep("0", FileIdLen - 2),
          Rep("0", FileIdLen - 1) \o <<"x">>,
          Rep("0", FileIdLen - 1) \o <<"/">>}

\* Strings around the length limit of a domain, in characters and in bytes.
DomainInputs ==
  {Rep("a", n) : n \in {0, 1, 2, DomainMaxLen - 1, DomainMaxLen, DomainMaxLen + 1,
                        DomainMaxLen + 2}}
    \cup {Rep("é", n) : n \in {1, DomainMaxLen \div 2, DomainMaxLen \div 2 + 1, DomainMaxLen}}
    \cup {<<"é">> \o Rep("a", n) : n \in {DomainMaxLen - 2, DomainMaxLen - 1}}
    \cup {<<"a", ".", "b">>, <<"A">>, <<"/">>}

PathInputs ==
  { <<>>, <<"/">>, <<"\\">>, <<"/", "a">>, <<"\\", "a">>, <<"a">>, <<"a", "/">>,
    <<"a", "\\", "b">>, <<".", "/", "a">>, <<".", ".">>, <<".", ".", "/", "a">>,
    <<"é">>, <<"d", "/", "f">>, <<"a", "/", "/", "b">>, <<".">>, <<"%">>, <<"_">> }

\* Values of the flags column: every combination of the defined bits, values
\* with further bits, negative values and the ends of the i32 range.
FlagInputs == (-1025..2050) \cup {2147483647, -2147483647, -2147483647 - 1, 65536 + 3}

ValueOps == {"FileId::new", "Domain::new", "RelativePath::new", "FileFlags::from"}

NoValue == [ok |-> FALSE, value |-> <<>>]

InitValue ==
  /\ op \in ValueOps
  /\ params \in (CASE op = "FileId::new" -> FileIdInputs
                   [] op = "Domain::new" -> DomainInputs
                   [] op = "RelativePath::new" -> PathInputs
                   [] op = "FileFlags::from" -> FlagInputs)
  /\ pc = "input"
  /\ result = NoValue
  /\ ret = NoValue
  /\ index = {}
  /\ fs = BaseFs
  /\ query = NoQuery
  /\ files = <<>>
  /\ pos = 0
  /\ log = <<>>
  /\ entries = <<>>
  /\ changes = 0

\* FileId::new applied to the input.
NewFileId ==
  /\ pc = "input" /\ op = "FileId::new"
  /\ pc' = "output"
  /\ result' = FileId_new(params)
  /\ UNCHANGED <<index, fs, op, params, query, files, pos, ret, log, entries, changes>>

\* FileId::new applied to the value of an accepted FileId.
NewFileIdAgain ==
  /\ pc = "output" /\ op = "FileId::new"
  /\ result.ok
  /\ pc' = "again"
  /\ ret' = FileId_new(result.value)
  /\ UNCHANGED <<index, fs, op, params, query, files, pos, result, log, entries, changes>>

\* Domain::new applied to the input.
NewDomain ==
  /\ pc = "input" /\ op = "Domain::new"
  /\ pc' = "output"
  /\ result' = Domain_new(params)
  /\ UNCHANGED <<index, fs, op, params, query, files, pos, ret, log, entries, changes>>

\* RelativePath::new applied to the input.
NewRelativePath ==
  /\ pc = "input" /\ op = "RelativePath::new"
  /\ pc' = "output"
  /\ result' = RelativePath_new(params)
  /\ UNCHANGED <<index, fs, op, params, query, files, pos, ret, log, entries, changes>>

\* i32 -> FileFlags (as Model::to_domain does) and FileFlags -> i32.
FlagsFromI32 ==
  /\ pc = "input" /\ op = "FileFlags::from"
  /\ pc' = "output"
  /\ result' = [ok |-> TRUE, value |-> FileFlags_from(params)]
  /\ ret' = [ok |-> TRUE, value |-> bits(FileFlags_from(params))]
  /\ UNCHANGED <<index, fs, op, params, query, files, pos, log, entries, changes>>

NextValue ==
  \/ NewFileId
  \/ NewFileIdAgain
  \/ NewDomain
  \/ NewRelativePath
  \/ FlagsFromI32

SpecValue == InitValue /\ [][NextValue]_vars

\* --------------------------------------------------- MetadataRepositoryImpl
MetadataIdLen == 25

\* char::is_alphanumeric on the characters the model uses.
is_alphanumeric(c) ==
  c \in {"0", "1", "9", "a", "b", "c", "d", "e", "f", "g", "k", "o", "t", "u", "x",
         "A", "B", "C", "D", "E", "F", "G", "é"}

\* MetadataId::new
MetadataId_new(id) ==
  IF id = <<>> THEN [ok |-> FALSE, value |-> <<>>]
  ELSE IF len(id) # MetadataIdLen THEN [ok |-> FALSE, value |-> <<>>]
  ELSE IF ~(\A k \in 1..Len(id) : is_alphanumeric(id[k]) \/ id[k] = "-")
    THEN [ok |-> FALSE, value |-> <<>>]
  ELSE [ok |-> TRUE, value |-> to_lowercase(id)]

\* ---- chrono: str::parse::<DateTime<Utc>>, the relaxed RFC 3339 reader.
\* A reader takes the text still to be read and returns what it read and the
\* rest of the text.
Digits == <<"0", "1", "2", "3", "4", "5", "6", "7", "8", "9">>

is_ascii_digit(c) == \E k \in 1..10 : Digits[k] = c

digit_value(c) == (CHOOSE k \in 1..10 : Digits[k] = c) - 1

\* str::trim_start; the white space of the texts is the space.
RECURSIVE trim_start(_)
trim_start(s) == IF s # <<>> /\ s[1] = " " THEN trim_start(Tail(s)) ELSE s

\* &s[n..]
skip(s, n) == SubSeq(s, n + 1, Len(s))

\* The number of leading digits of s, max at most.
leading_digits(s, max) ==
  CHOOSE n \in 0..Len(s) :
    /\ n <= max
    /\ \A k \in 1..n : is_ascii_digit(s[k])
    /\ n = max \/ n = Len(s) \/ ~is_ascii_digit(s[n + 1])

\* A number read from the text is kept as its numeral, the digits without
\* leading zeros ("0" for zero): an i64 has more digits than the integers here.
\* a <= b for two numerals.
numeral_le(a, b) ==
  \/ Len(a) < Len(b)
  \/ /\ Len(a) = Len(b)
     /\ \/ a = b
        \/ \E k \in 1..Len(a) :
             /\ \A j \in 1..(k - 1) : a[j] = b[j]
             /\ digit_value(a[k]) < digit_value(b[k])

\* The integer a numeral of at most i32::MAX names.
RECURSIVE int_of(_)
int_of(v) ==
  IF v = <<>> THEN 0
  ELSE 10 * int_of(SubSeq(v, 1, Len(v) - 1)) + digit_value(v[Len(v)])

\* scan::number: from min to max digits read as an i64; a value above
\* i64::MAX = 9223372036854775807 is an error.
number(s, min, max) ==
  LET n == leading_digits(s, max)
      zeros == CHOOSE z \in 0..n :
                 (\A k \in 1..z : s[k] = "0") /\ (z = n \/ s[z + 1] # "0")
      v == IF zeros = n THEN <<"0">> ELSE SubSeq(s, zeros + 1, n)
      i64_max == <<"9", "2", "2", "3", "3", "7", "2", "0", "3", "6",
                   "8", "5", "4", "7", "7", "5", "8", "0", "7">>
  IN IF n < min \/ ~numeral_le(v, i64_max) THEN [ok |-> FALSE, v |-> <<"0">>, rest |-> s]
     ELSE [ok |-> TRUE, v |-> v, rest |-> skip(s, n)]

\* Parsed::set_year, set_month, set_day, set_hour, set_minute and set_second
\* on the number r read for the field, taken negative when neg: a year is an
\* i32, a month 1..12, a day 1..31, an hour 0..23, a minute 0..59, a second
\* 0..60, and a number outside the range of its field is an error.
set_field(spec, neg, r) ==
  LET no == [ok |-> FALSE, v |-> 0, rest |-> r.rest]
      i32_max == <<"2", "1", "4", "7", "4", "8", "3", "6", "4", "7">>
      i32_min == <<"2", "1", "4", "7", "4", "8", "3", "6", "4", "8">>
  IN IF ~r.ok THEN no
     ELSE IF spec = "Year"
       THEN IF ~numeral_le(r.v, IF neg THEN i32_min ELSE i32_max) THEN no
            ELSE [ok |-> TRUE,
                  v |-> IF ~neg THEN int_of(r.v)
                        ELSE IF r.v = i32_min THEN 0 - 2147483647 - 1
                        ELSE 0 - int_of(r.v),
                  rest |-> r.rest]
     ELSE IF \/ spec \in {"Month", "Day"} /\ r.v = <<"0">>
             \/ spec = "Month" /\ int_of(r.v) > 12
             \/ spec = "Day" /\ int_of(r.v) > 31
             \/ spec = "Hour" /\ int_of(r.v) > 23
             \/ spec = "Minute" /\ int_of(r.v) > 59
             \/ spec = "Second" /\ int_of(r.v) > 60
       THEN no
     ELSE [ok |-> TRUE, v |-> int_of(r.v), rest |-> r.rest]

\* Item::Numeric of the field spec: white space, then a number of at most four
\* digits for the year and two for the other fields, which is set as the field.
\* The year may start with a sign and then has any number of digits.
numeric(s, spec) ==
  LET t == trim_start(s)
  IN IF spec = "Year" /\ t # <<>> /\ t[1] = "-"
       THEN set_field(spec, TRUE, number(Tail(t), 1, Len(t)))
     ELSE IF spec = "Year" /\ t # <<>> /\ t[1] = "+"
       THEN set_field(spec, FALSE, number(Tail(t), 1, Len(t)))
     ELSE set_field(spec, FALSE, number(t, 1, IF spec = "Year" THEN 4 ELSE 2))

\* Item::Literal of one character.
literal(s, c) ==
  IF s # <<>> /\ s[1] = c THEN [ok |-> TRUE, rest |-> Tail(s)]
  ELSE [ok |-> FALSE, rest |-> s]

\* Fixed::Nanosecond: a point and digits, the first nine of them counted and
\* scaled to nanoseconds, or nothing.
nanosecond(s) ==
  IF s # <<>> /\ s[1] = "."
    THEN LET t == Tail(s)
             n == leading_digits(t, 9)
             r == number(t, 1, 9)
             SCALE == <<100000000, 10000000, 1000000, 100000, 10000, 1000, 100, 10, 1>>
         IN IF ~r.ok THEN [ok |-> FALSE, v |-> 0, rest |-> s]
            ELSE [ok |-> TRUE, v |-> int_of(r.v) * SCALE[n],
                  rest |-> skip(r.rest, leading_digits(r.rest, Len(r.rest)))]
    ELSE [ok |-> TRUE, v |-> 0, rest |-> s]

\* DATE_ITEMS: year - month - day.
date_items(s) ==
  LET y == numeric(s, "Year")
      a == literal(trim_start(y.rest), "-")
      m == numeric(a.rest, "Month")
      b == literal(trim_start(m.rest), "-")
      d == numeric(b.rest, "Day")
  IN IF y.ok /\ a.ok /\ m.ok /\ b.ok /\ d.ok
       THEN [ok |-> TRUE, year |-> y.v, month |-> m.v, day |-> d.v, rest |-> d.rest]
     ELSE [ok |-> FALSE, year |-> 0, month |-> 0, day |-> 0, rest |-> s]

\* TIME_ITEMS: hour : minute : second, a fraction, white space.
time_items(s) ==
  LET h == numeric(s, "Hour")
      a == literal(trim_start(h.rest), ":")
      m == numeric(a.rest, "Minute")
      b == literal(trim_start(m.rest), ":")
      sec == numeric(b.rest, "Second")
      n == nanosecond(sec.rest)
  IN IF h.ok /\ a.ok /\ m.ok /\ b.ok /\ sec.ok /\ n.ok
       THEN [ok |-> TRUE, hour |-> h.v, minute |-> m.v, second |-> sec.v,
             nano |-> n.v, rest |-> trim_start(n.rest)]
     ELSE [ok |-> FALSE, hour |-> 0, minute |-> 0, second |-> 0, nano |-> 0, rest |-> s]

\* scan::colon_or_space
RECURSIVE colon_or_space(_)
colon_or_space(s) ==
  IF s # <<>> /\ (s[1] = ":" \/ s[1] = " ") THEN colon_or_space(Tail(s)) ELSE s

\* scan::timezone_offset with Z allowed and the minutes required: the offset
\* east of UTC in seconds.
timezone_offset(s) ==
  LET no == [ok |-> FALSE, v |-> 0, rest |-> s]
  IN IF s = <<>> THEN no
     ELSE IF s[1] \in {"Z", "z"} THEN [ok |-> TRUE, v |-> 0, rest |-> Tail(s)]
     ELSE IF s[1] \notin {"+", "-"} THEN no
     ELSE LET t == Tail(s)
          IN IF Len(t) < 2 \/ ~is_ascii_digit(t[1]) \/ ~is_ascii_digit(t[2]) THEN no
             ELSE LET hours == 10 * digit_value(t[1]) + digit_value(t[2])
                      u == colon_or_space(skip(t, 2))
                  IN IF Len(u) < 2 \/ ~is_ascii_digit(u[1]) \/ ~is_ascii_digit(u[2]) THEN no
                     ELSE IF digit_value(u[1]) > 5 THEN no
                     ELSE LET minutes == 10 * digit_value(u[1]) + digit_value(u[2])
                              seconds == hours * 3600 + minutes * 60
                          IN [ok |-> TRUE, v |-> IF s[1] = "-" THEN 0 - seconds ELSE seconds,
                              rest |-> skip(u, 2)]

\* The offset part of the text: "UTC" in any case, or a timezone_offset.
offset_item(s) ==
  IF Len(s) >= 3 /\ s[1] \in {"U", "u"} /\ s[2] \in {"T", "t"} /\ s[3] \in {"C", "c"}
    THEN [ok |-> TRUE, v |-> 0, rest |-> skip(s, 3)]
    ELSE timezone_offset(s)

days_in_month(y, m) ==
  IF m = 2 THEN (IF y % 4 = 0 /\ (y % 100 # 0 \/ y % 400 = 0) THEN 29 ELSE 28)
  ELSE IF m \in {4, 6, 9, 11} THEN 30
  ELSE 31

\* The number of days from 1970-01-01 to the day y-m-d.
days_from_civil(y, m, d) ==
  LET yy == IF m <= 2 THEN y - 1 ELSE y
      era == yy \div 400
      yoe == yy - era * 400
      doy == (153 * (IF m > 2 THEN m - 3 ELSE m + 9) + 2) \div 5 + d - 1
      doe == yoe * 365 + yoe \div 4 - yoe \div 100 + doy
  IN era * 146097 + doe - 719468

NoInstant == [days |-> 0, secs |-> 0, nanos |-> 0]

\* Parsed::to_datetime and the change to UTC: the fields are checked against
\* their ranges and the instant is days since 1970-01-01, seconds of that day
\* and nanoseconds (a leap second is second 59 with a thousand million more).
to_datetime(year, month, day, hour, minute, second, nano, offset) ==
  IF \/ year < 0 - 262143 \/ year > 262142
     \/ month < 1 \/ month > 12
     \/ day < 1 \/ day > days_in_month(year, month)
     \/ hour > 23 \/ minute > 59 \/ second > 60
     \/ offset <= 0 - 86400 \/ offset >= 86400
    THEN [ok |-> FALSE, value |-> NoInstant]
    ELSE LET local == hour * 3600 + minute * 60 + (IF second = 60 THEN 59 ELSE second) - offset
             days == days_from_civil(year, month, day) + local \div 86400
         IN IF \/ days < days_from_civil(0 - 262143, 1, 1)
               \/ days > days_from_civil(262142, 12, 31)
              THEN [ok |-> FALSE, value |-> NoInstant]
              ELSE [ok |-> TRUE,
                    value |-> [days |-> days, secs |-> local % 86400,
                               nanos |-> nano + (IF second = 60 THEN 1000000000 ELSE 0)]]

\* The end of the reading, with the date d, the time t and the offset o read:
\* nothing but white space may be left.
parse_end(d, t, o) ==
  IF ~o.ok \/ trim_start(o.rest) # <<>> THEN [ok |-> FALSE, value |-> NoInstant]
  ELSE to_datetime(d.year, d.month, d.day, t.hour, t.minute, t.second, t.nano, o.v)

\* The reading from the offset on, with the date d and the time t read.
parse_offset(d, t) ==
  IF ~t.ok THEN [ok |-> FALSE, value |-> NoInstant]
  ELSE parse_end(d, t, offset_item(t.rest))

\* The reading from the end of the date d on: one of 'T', 't' and ' ', then
\* the time.
parse_time(d) ==
  IF ~d.ok \/ d.rest = <<>> \/ d.rest[1] \notin {"T", "t", " "}
    THEN [ok |-> FALSE, value |-> NoInstant]
    ELSE parse_offset(d, time_items(skip(d.rest, 1)))

\* str::parse::<DateTime<Utc>>: the date, one of 'T', 't' and ' ', the time,
\* the offset and nothing but white space after it; the instant is in UTC.
parse_date(text) == parse_time(date_items(text))

NoMetadata ==
  [id |-> <<>>, device_name |-> "", product_name |-> "", last_backup_date |-> NoInstant]

\* plist::from_bytes::<BackupInfo>: the content of a file is, in this order,
\* the values of the keys "Unique Identifier", "Device Name", "Product Name"
\* and "Last Backup Date"; content of any other shape does not deserialize.
from_bytes(content) ==
  IF Len(content) = 4
    THEN [ok |-> TRUE,
          info |-> [unique_identifier |-> content[1], device_name |-> content[2],
                    product_name |-> content[3], last_backup_date |-> content[4]]]
    ELSE [ok |-> FALSE,
          info |-> [unique_identifier |-> <<>>, device_name |-> "",
                    product_name |-> "", last_backup_date |-> <<>>]]

\* Metadata::new on the results of MetadataId::new and of the parsing of the
\* date, each of which may be an error that to_domain returns.
Metadata_new(i, info, d) ==
  IF ~i.ok \/ ~d.ok THEN [ok |-> FALSE, metadata |-> NoMetadata]
  ELSE [ok |-> TRUE,
        metadata |-> [id |-> i.value, device_name |-> info.device_name,
                      product_name |-> info.product_name,
                      last_backup_date |-> d.value]]

\* BackupInfo::to_domain
BackupInfo_to_domain(info) ==
  Metadata_new(MetadataId_new(info.unique_identifier), info, parse_date(info.last_backup_date))

\* MetadataRepositoryImpl::load_from_plist_content
load_from_plist_content(content) ==
  LET b == from_bytes(content)
  IN IF ~b.ok THEN [ok |-> FALSE, metadata |-> NoMetadata]
     ELSE BackupInfo_to_domain(b.info)

InfoPlist == <<"I", "n", "f", "o", ".", "p", "l", "i", "s", "t">>

\* fs::read: the bytes of a regular file.
read(f, path) ==
  LET w == walk(f, <<>>, path)
  IN IF w.err = "ok" /\ w.at \in DOMAIN f /\ f[w.at].kind = "file"
       THEN [ok |-> TRUE, data |-> f[w.at].data]
       ELSE [ok |-> FALSE, data |-> <<>>]

\* find_by_backup_directory from the answer r of fs::read: the error of the
\* read, or what loading the content gives.
load_read(r) ==
  IF ~r.ok THEN [ok |-> FALSE, metadata |-> NoMetadata]
  ELSE load_from_plist_content(r.data)

\* if let Ok(metadata) = .. { metadata_list.push(metadata) }
push_ok(list, m) == IF m.ok THEN Append(list, m.metadata) ELSE list

\* The backup root the repository was made for.
BackupRoot == <<<<"r", "o", "o", "t">>>>

\* The entries fs::read_dir yields for a directory, in every order it may
\* yield them.
read_dir(f, dir) ==
  LET found == {p \in DOMAIN f : Len(p) = Len(dir) + 1 /\ SubSeq(p, 1, Len(dir)) = dir}
      n == Cardinality(found)
  IN {s \in [1..n -> found] : \A a, b \in 1..n : a # b => s[a] # s[b]}

\* ----------------------------------------------------- find_all on its own
\* The most entries the backup root holds.
MaxEntries == 3

EntryNames == {Rep("b", n) : n \in 1..MaxEntries}

\* What an entry of the backup root is.
EntryKindOrder ==
  <<"absent", "file", "empty dir", "Info.plist is a directory", "valid", "valid, other case",
    "malformed", "no date key", "bad id", "bad date">>

EntryKinds == {EntryKindOrder[k] : k \in 1..Len(EntryKindOrder)}

\* The names of the entries carry no meaning and read_dir yields the entries
\* in every order: of the assignments of kinds to names that differ only in
\* the names, the one with the kinds in order stands for all.
EntryKindsOf ==
  {kinds \in [EntryNames -> EntryKinds] :
     \A a, b \in EntryNames :
       Len(a) < Len(b) =>
         \E i, j \in 1..Len(EntryKindOrder) :
           i <= j /\ EntryKindOrder[i] = kinds[a] /\ EntryKindOrder[j] = kinds[b]}

\* "2024-01-15T10:30:00.000Z"
DateUtcMillis ==
  <<"2", "0", "2", "4", "-", "0", "1", "-", "1", "5", "T",
    "1", "0", ":", "3", "0", ":", "0", "0", ".", "0", "0", "0", "Z">>

\* "2024-01-15T19:30:00+09:00"
DateJst ==
  <<"2", "0", "2", "4", "-", "0", "1", "-", "1", "5", "T",
    "1", "9", ":", "3", "0", ":", "0", "0", "+", "0", "9", ":", "0", "0">>

\* "not-a-date"
NotADate == <<"n", "o", "t", "-", "a", "-", "d", "a", "t", "e">>

\* The content of the Info.plist of an entry.
PlistContent(kind) ==
  CASE kind = "valid" ->
         <<Rep("a", MetadataIdLen), "iPhone 15 Pro", "iPhone16,1", DateUtcMillis>>
    [] kind = "valid, other case" ->
         <<Rep("A", MetadataIdLen - 1) \o <<"-">>, "iPad", "iPad1,1", DateJst>>
    [] kind = "no date key" -> <<Rep("a", MetadataIdLen), "iPhone 15 Pro", "iPhone16,1">>
    [] kind = "bad id" ->
         <<Rep("a", MetadataIdLen - 1), "iPhone 15 Pro", "iPhone16,1", DateUtcMillis>>
    [] kind = "bad date" ->
         <<Rep("a", MetadataIdLen), "iPhone 15 Pro", "iPhone16,1", NotADate>>
    [] OTHER -> <<>>

\* The file system with the backup root as a directory of the given entries.
MetaFs(kinds) ==
  LET kids == {n \in EntryNames : kinds[n] # "absent"}
      dirs == {n \in kids : kinds[n] # "file"}
      plists == {n \in dirs : kinds[n] # "empty dir"}
      dom == {<<>>, BackupRoot}
               \cup {Append(BackupRoot, n) : n \in kids}
               \cup {BackupRoot \o <<n, InfoPlist>> : n \in plists}
  IN [p \in dom |->
        IF Len(p) <= 1 THEN DirNode
        ELSE IF Len(p) = 2
          THEN (IF kinds[p[2]] = "file" THEN FileNode(<<>>) ELSE DirNode)
        ELSE IF kinds[p[2]] = "Info.plist is a directory" THEN DirNode
        ELSE FileNode(PlistContent(kinds[p[2]]))]

RootKinds == {"absent", "file", "dir"}

InitMeta ==
  /\ \E root \in RootKinds :
       \E kinds \in EntryKindsOf :
         fs = CASE root = "absent" -> (<<>> :> DirNode)
                [] root = "file" -> (<<>> :> DirNode) @@ (BackupRoot :> FileNode(<<>>))
                [] root = "dir" -> MetaFs(kinds)
  /\ pc = "meta"
  /\ op = "find_all"
  /\ params = NoParams
  /\ index = {}
  /\ query = NoQuery
  /\ files = <<>>
  /\ pos = 0
  /\ result = ZeroResult
  /\ ret = Pending
  /\ log = <<>>
  /\ entries = <<>>
  /\ changes = 0

\* MetadataRepositoryImpl::find_all up to its wait for fs::read_dir: a backup
\* root that does not exist ends the call.
FindAllBegin ==
  /\ pc = "meta"
  /\ IF ~exists(fs, BackupRoot)
       THEN pc' = "found" /\ ret' = Err("Backup root directory does not exist")
       ELSE pc' = "read_dir" /\ ret' = Pending
  /\ UNCHANGED <<index, fs, op, params, query, files, pos, result, log, entries, changes>>

\* fs::read_dir answers: the entries of the backup root as they are now, or
\* the error that ends the call. metadata_list starts empty.
FindAllReadDir ==
  /\ pc = "read_dir"
  /\ IF ~is_dir(fs, BackupRoot)
       THEN /\ pc' = "found"
            /\ ret' = Err("Failed to read backup directory")
            /\ UNCHANGED entries
       ELSE /\ pc' = "next_entry"
            /\ entries' \in read_dir(fs, BackupRoot)
            /\ UNCHANGED ret
  /\ files' = <<>>
  /\ pos' = 0
  /\ UNCHANGED <<index, fs, op, params, query, result, log, changes>>

\* Mutant of FindAllNextEntry: a directory without Info.plist ends the call
\* with the error of find_by_backup_directory.
FindAllNextEntry_strict ==
  /\ pc = "next_entry"
  /\ IF pos = Len(entries)
       THEN pc' = "found" /\ ret' = Ok /\ UNCHANGED pos
       ELSE LET path == entries[pos + 1]
            IN /\ pos' = pos + 1
               /\ IF ~is_dir(fs, path) THEN pc' = "next_entry" /\ UNCHANGED ret
                  ELSE IF ~exists(fs, Append(path, InfoPlist))
                    THEN pc' = "found" /\ ret' = Err("Info.plist file not found")
                  ELSE pc' = "read" /\ UNCHANGED ret
  /\ UNCHANGED <<index, fs, op, params, query, files, result, log, entries, changes>>

\* entries.next_entry() answers. Without a next entry the call returns the
\* list. A next entry that is not a directory is passed over; for a directory
\* find_by_backup_directory is entered, which gives up on a path that is not a
\* directory or has no Info.plist and else waits for fs::read.
FindAllNextEntry ==
  /\ pc = "next_entry"
  /\ IF pos = Len(entries)
       THEN pc' = "found" /\ ret' = Ok /\ UNCHANGED pos
       ELSE LET path == entries[pos + 1]
            IN /\ pos' = pos + 1
               /\ UNCHANGED ret
               /\ IF ~is_dir(fs, path) THEN pc' = "next_entry"
                  ELSE IF ~is_dir(fs, path) \/ ~exists(fs, Append(path, InfoPlist))
                    THEN pc' = "next_entry"
                  ELSE pc' = "read"
  /\ UNCHANGED <<index, fs, op, params, query, files, result, log, entries, changes>>

\* fs::read of the Info.plist answers: find_by_backup_directory returns the
\* metadata loaded from the content, which find_all adds to the list, or an
\* error, which find_all drops.
FindAllRead ==
  /\ pc = "read"
  /\ files' = push_ok(files, load_read(read(fs, Append(entries[pos], InfoPlist))))
  /\ pc' = "next_entry"
  /\ UNCHANGED <<index, fs, op, params, query, pos, result, ret, log, entries, changes>>

\* While find_all waits, another task of the runtime removes the backup root
\* with all it holds, or the Info.plist of one backup.
OtherTaskMeta ==
  /\ pc \in {"read_dir", "next_entry", "read"}
  /\ changes < MaxChanges
  /\ \/ /\ BackupRoot \in DOMAIN fs
        /\ fs' = [x \in {y \in DOMAIN fs : y = <<>> \/ y[1] # BackupRoot[1]} |-> fs[x]]
     \/ \E q \in DOMAIN fs :
          /\ Len(q) = 3 /\ q[1] = BackupRoot[1] /\ q[3] = InfoPlist
          /\ fs' = [x \in DOMAIN fs \ {q} |-> fs[x]]
  /\ changes' = changes + 1
  /\ UNCHANGED <<index, pc, op, params, query, files, pos, result, ret, log, entries>>

NextMeta ==
  \/ FindAllBegin
  \/ FindAllReadDir
  \/ FindAllNextEntry
  \/ FindAllRead
  \/ OtherTaskMeta

SpecMeta == InitMeta /\ [][NextMeta]_vars

\* =================================================================== claims
Filters(p) == <<p.domain_exact, p.domain_contains, p.path_exact, p.path_contains>>

FilterTags == <<"DomainExact", "DomainContains", "PathExact", "PathContains">>

\* The number of filters that are present.
PresentCount(p) == Cardinality({k \in 1..4 : Filters(p)[k] # None})

NoFilter(p) == \A k \in 1..4 : Filters(p)[k] = None

NoConditionError == Err("At least one search condition must be specified")

\* C7: build_query returns an error if and only if all four filters are
\* absent; the error is the "no search condition" error and nothing else, and
\* every other input yields a query.
C7_ErrorIffNoFilter ==
  pc = "built" =>
    /\ (ret.status = "Err") <=> NoFilter(params)
    /\ ret.status = "Err" => ret = NoConditionError /\ query = NoQuery
    /\ ret.status # "Err" => ret = Ok /\ query.tag \in {"Basic", "Composite"}

\* Witness of C7: the builder ran on parameters without any filter and failed.
C7_Witness == pc = "built" /\ NoFilter(params) /\ ret = NoConditionError

\* C8: with exactly one filter present the query is a bare Basic for either
\* value of use_or; with more it is a Composite, AnyOf when use_or is true and
\* AllOf when it is false.
C8_QueryShape ==
  pc = "built" /\ PresentCount(params) >= 1 =>
    /\ ret = Ok
    /\ PresentCount(params) = 1 => query.tag = "Basic"
    /\ PresentCount(params) > 1 =>
         /\ query.tag = "Composite"
         /\ query.kind = (IF params.use_or THEN "AnyOf" ELSE "AllOf")

\* Witness of C8: three filters with use_or set gave an AnyOf composite.
C8_Witness ==
  /\ pc = "built"
  /\ PresentCount(params) = 3
  /\ params.use_or
  /\ query.tag = "Composite"
  /\ query.kind = "AnyOf"

\* C9: the collected predicates are one per present filter, each with the
\* filter's value unchanged, in the order DomainExact, DomainContains,
\* PathExact, PathContains; a filter holding the empty string is collected.
C9_PredicatesInOrder ==
  pc = "built" /\ PresentCount(params) >= 1 =>
    /\ Len(query.qs) = PresentCount(params)
    /\ \A k \in 1..4 :
         Filters(params)[k] # None =>
           \E j \in 1..Len(query.qs) :
             query.qs[j] = [tag |-> FilterTags[k], v |-> Filters(params)[k][2]]
    /\ \A i, j \in 1..Len(query.qs) :
         i < j =>
           \E a, b \in 1..4 :
             a < b /\ query.qs[i].tag = FilterTags[a] /\ query.qs[j].tag = FilterTags[b]

\* Witness of C9: all four filters present, two of them the empty string, and
\* the four predicates came out in the fixed order.
C9_Witness ==
  /\ pc = "built"
  /\ params.domain_exact = Some(<<>>)
  /\ params.path_exact = Some(<<>>)
  /\ Len(query.qs) = 4
  /\ query.qs[1] = [tag |-> "DomainExact", v |-> <<>>]
  /\ query.qs[3] = [tag |-> "PathExact", v |-> <<>>]
  /\ query.qs[4].tag = "PathContains"

\* C10: no query without conditions reaches FileRepository::search: the
\* services pass on a Basic, or a Composite of two to four predicates, and
\* parameters without any filter are refused before the repository is asked.
C10_NoEmptyQueryReachesIndex ==
  /\ query # NoQuery =>
       /\ op \in {"search", "extract"}
       /\ Len(query.qs) >= 1
       /\ query.tag = "Basic" => Len(query.qs) = 1
       /\ query.tag = "Composite" => Len(query.qs) >= 2 /\ Len(query.qs) <= 4
  /\ pc # "idle" /\ NoFilter(params) =>
       query = NoQuery /\ pc = "done" /\ ret = NoConditionError

\* Witness of C10: search handed the repository a composite of four
\* predicates and waits for the answer.
C10_Witness ==
  /\ op = "search"
  /\ pc = "searching"
  /\ query.tag = "Composite"
  /\ Len(query.qs) = 4
  /\ PresentCount(params) = 4

\* ------------------------------------------------------- extraction claims
\* The record the loop handles next.
Handling == pc = "loop" /\ pos <= Len(files)

\* destinationRoot/<relative path>, component by component.
Dest(file) == OutputDir \o components(file.relative_path)

\* The directory the destination file goes into is there in f.
ParentMade(f, file) == is_dir(f, Front(Dest(file)))

\* The destination of the record names a regular file in f.
DestIsFile(f, file) ==
  LET w == walk(f, <<>>, Dest(file))
  IN /\ ~dirlike(file.relative_path)
     /\ Last(Dest(file)) # DotDot
     /\ w.err = "ok"
     /\ w.at \in DOMAIN f
     /\ f[w.at].kind = "file"

DestData(f, file) == f[walk(f, <<>>, Dest(file)).at].data

IsError(r) == r \in {MsgParent, MsgCopy}

\* C1: when creating the parent directory or copying fails for a record, the
\* step adds exactly one entry to errors with the record's file id, relative
\* path and the message of what failed, leaves both counts alone, and the
\* loop goes on; the loop is only left with Ok after the last record.
C1_Step ==
  /\ Handling /\ HasBlob(fs, files[pos])
       /\ (~ParentMade(fs', files[pos]) \/ ~DestIsFile(fs', files[pos])) =>
       /\ result'.errors =
            Append(result.errors,
                   [file_id |-> files[pos].file_id,
                    relative_path |-> files[pos].relative_path,
                    error |-> IF ParentMade(fs', files[pos]) THEN MsgCopy ELSE MsgParent])
       /\ result'.extracted_count = result.extracted_count
       /\ result'.skipped_count = result.skipped_count
  /\ pc = "loop" =>
       \/ pc' = "loop" /\ pos <= Len(files) /\ pos' = pos + 1 /\ ret' = Pending
       \/ pc' = "done" /\ pos = Len(files) + 1 /\ ret' = Ok /\ result' = result

C1_FailureIsPerFile == [][C1_Step]_vars

\* Witness of C1: three records matched, the first failed and is the only
\* entry of errors, the two after it were handled, and the call returned Ok.
C1_Witness ==
  /\ pc = "done"
  /\ ret = Ok
  /\ Len(files) = 3
  /\ Len(result.errors) = 1
  /\ result.errors[1].file_id = files[1].file_id
  /\ result.extracted_count + result.skipped_count = 2

\* The number of handled records whose blob was there.
PresentSeen == Cardinality({k \in 1..Len(log) : log[k].present})

\* C2: when no directory creation and no copy failed, a finished extraction
\* of N matched records, K of them with a blob, has extracted_count = K,
\* skipped_count = N - K and no errors.
C2_Counts ==
  pc = "done" /\ op = "extract" /\ ret = Ok
    /\ (\A k \in 1..Len(log) : ~IsError(log[k].r)) =>
      /\ Len(log) = Len(files)
      /\ result.extracted_count = PresentSeen
      /\ result.skipped_count = Len(files) - PresentSeen
      /\ result.errors = <<>>

\* Witness of C2: three records, two with a blob and one without.
C2_Witness ==
  /\ pc = "done"
  /\ ret = Ok
  /\ Len(files) = 3
  /\ PresentSeen = 2
  /\ result.extracted_count = 2
  /\ result.skipped_count = 1
  /\ result.errors = <<>>

\* C3: a record whose source blob is missing is counted as skipped and not as
\* an error, and handling it creates nothing.
C3_Step ==
  Handling /\ ~HasBlob(fs, files[pos]) =>
    /\ result' = [result EXCEPT !.skipped_count = @ + 1]
    /\ fs' = fs

C3_MissingBlobIsSkipped == [][C3_Step]_vars

\* Witness of C3: the one matched record had no blob and was skipped; the
\* destination root is there and empty.
C3_Witness ==
  /\ pc = "done"
  /\ Len(files) = 1
  /\ ~HasBlob(fs, files[1])
  /\ result = [extracted_count |-> 0, skipped_count |-> 1, errors |-> <<>>]
  /\ OutputDir \in DOMAIN fs
  /\ \A p \in DOMAIN fs : Len(p) > 1 => p[1] # OutputDir[1]

\* The destination of the record holds the given bytes and lies in directories.
Extracted(f, file, bytes) ==
  /\ DestIsFile(f, file)
  /\ DestData(f, file) = bytes
  /\ \A k \in 1..(Len(Dest(file)) - 1) : is_dir(f, SubSeq(Dest(file), 1, k))

\* C4 as stated: after the call, the destination of every record counted as
\* extracted holds the bytes of that record's blob.
C4_Original ==
  pc = "done" /\ op = "extract" /\ ret = Ok =>
    \A k \in 1..Len(log) :
      log[k].r = "extracted" => Extracted(fs, files[k], BlobData(files[k].file_id))

\* C4 as amended: when a record has been handled and counted as extracted,
\* its blob is the file at sourceRoot/<first two characters>/<file id>, and
\* the destination is then a file, in directories that exist, holding the
\* bytes of that blob (a later record for the same destination may replace it).
C4_Step ==
  Handling /\ result'.extracted_count = result.extracted_count + 1 =>
    /\ HasBlob(fs, files[pos])
    /\ fs[BlobPath(files[pos])].kind = "file"
    /\ Extracted(fs', files[pos], fs'[BlobPath(files[pos])].data)

C4_ExtractedWhenHandled == [][C4_Step]_vars

\* Witness of C4: a record with a nested relative path was extracted into a
\* destination that did not exist, and the copy holds the blob's bytes.
C4_Witness ==
  /\ pc = "done"
  /\ Len(files) = 1
  /\ result.extracted_count = 1
  /\ Len(Dest(files[1])) = 3
  /\ Extracted(fs, files[1], BlobData(files[1].file_id))

IsPrefix(a, b) == Len(a) <= Len(b) /\ SubSeq(b, 1, Len(a)) = a

\* The nodes that a step created or changed.
Touched(f, g) == {p \in DOMAIN g : p \notin DOMAIN f \/ g[p] # f[p]}

\* This step is one of the call itself and not of another task.
OwnStep == changes' = changes

\* C5: everything extract creates or overwrites lies under the destination root.
C5_Step == OwnStep => \A p \in Touched(fs, fs') : IsPrefix(OutputDir, p)

C5_WritesStayUnderDestination == [][C5_Step]_vars

\* C6: extract leaves the source store and the index as they were.
C6_Step ==
  OwnStep =>
    /\ index' = index
    /\ \A p \in DOMAIN fs \cup DOMAIN fs' :
         IsPrefix(BackupDir, p) => p \in DOMAIN fs /\ p \in DOMAIN fs' /\ fs'[p] = fs[p]

C6_SourceAndIndexUntouched == [][C6_Step]_vars

\* ------------------------------------------------ the repository's search
Searched == pc = "searched" /\ ret = Ok

\* The one predicate of a bare Basic query.
Pred == query.qs[1]

\* The records the search returned, and the records of a set of rows.
Returned == {files[k] : k \in 1..Len(files)}

FilesOf(rows) == {to_domain(row).file : row \in rows}

\* The stored field a predicate looks at.
Column(bq, row) ==
  IF bq.tag \in {"DomainExact", "DomainContains"} THEN row.domain
  ELSE row.relative_path

\* v occurs in s as a contiguous run of the same characters.
IsSubstring(v, s) ==
  \E i \in 1..(Len(s) + 1) :
    /\ i + Len(v) - 1 <= Len(s)
    /\ SubSeq(s, i, i + Len(v) - 1) = v

\* C11: a 'contains' predicate selects exactly the records whose field holds
\* the value as a case-sensitive substring, '%' and '_' standing for
\* themselves.
C11_ContainsIsSubstring ==
  Searched /\ query.tag = "Basic" /\ Pred.tag \in {"DomainContains", "PathContains"} =>
    Returned = FilesOf({row \in index : IsSubstring(Pred.v, Column(Pred, row))})

\* C12: an 'equals' predicate selects exactly the records whose field is the
\* value character for character, case included; PathExact of the empty
\* string selects exactly the records with the empty relative path.
C12_EqualsIsExact ==
  Searched /\ query.tag = "Basic" /\ Pred.tag \in {"DomainExact", "PathExact"} =>
    /\ Returned = FilesOf({row \in index : Column(Pred, row) = Pred.v})
    /\ Pred = BasicQuery("PathExact", <<>>) =>
         \A row \in index :
           (to_domain(row).file \in Returned) <=> (row.relative_path = <<>>)

\* Witness of C12: DomainExact "ab" returned one record while the index also
\* held a record with domain "Ab".
C12_Witness ==
  /\ Searched
  /\ query = Basic(BasicQuery("DomainExact", <<"a", "b">>))
  /\ Len(files) = 1
  /\ \E row \in index : row.domain = <<"A", "b">>

\* The rows a search with the bare predicate bq selects.
Selects(bq) == {row \in index : matches(Basic(bq), row)}

\* C13: a search with AllOf(list) returns a record if and only if every
\* predicate of the list selects it; AllOf of the empty list returns every
\* record.  For a list of 'equals' predicates these are the records equal to
\* every value in the field it names.
C13_AllOfIsConjunction ==
  Searched /\ query.kind = "AllOf" =>
    /\ \A row \in index :
         (to_domain(row).file \in Returned) <=>
           (\A k \in 1..Len(query.qs) : row \in Selects(query.qs[k]))
    /\ query.qs = <<>> => Returned = FilesOf(index)
    /\ (\A k \in 1..Len(query.qs) : query.qs[k].tag \in {"DomainExact", "PathExact"}) =>
         Returned = FilesOf({row \in index :
                      \A k \in 1..Len(query.qs) : Column(query.qs[k], row) = query.qs[k].v})

\* Witness of C13: of two records one satisfied both predicates of an AllOf
\* and was returned, the other satisfied only the first and was not.
C13_Witness ==
  /\ Searched
  /\ query = all_of(<<BasicQuery("DomainContains", <<"a", "b">>),
                      BasicQuery("PathExact", <<>>)>>)
  /\ Cardinality(index) = 2
  /\ Len(files) = 1
  /\ \A row \in index : row \in Selects(query.qs[1])

\* C14: a search with AnyOf(list) returns a record if and only if at least one
\* predicate of the list selects it, and returns it once however many select
\* it; AnyOf of the empty list returns every record.  For a list of 'equals'
\* predicates these are the records equal to one of the values in the field
\* it names.
C14_AnyOfIsDisjunction ==
  Searched /\ query.kind = "AnyOf" =>
    /\ query.qs # <<>> =>
         \A row \in index :
           (to_domain(row).file \in Returned) <=>
             (\E k \in 1..Len(query.qs) : row \in Selects(query.qs[k]))
    /\ query.qs = <<>> => Returned = FilesOf(index)
    /\ \A a, b \in 1..Len(files) : files[a] = files[b] => a = b
    /\ query.qs # <<>>
         /\ (\A k \in 1..Len(query.qs) : query.qs[k].tag \in {"DomainExact", "PathExact"}) =>
         Returned = FilesOf({row \in index :
                      \E k \in 1..Len(query.qs) : Column(query.qs[k], row) = query.qs[k].v})

\* Witness of C14: a record selected by both predicates of an AnyOf came back
\* once, next to a record selected by one of them only.
C14_Witness ==
  /\ Searched
  /\ query = any_of(<<BasicQuery("DomainContains", <<"a", "b">>),
                      BasicQuery("PathExact", <<>>)>>)
  /\ Cardinality(index) = 2
  /\ Len(files) = 2
  /\ \E row \in index : row \in Selects(query.qs[1]) \cap Selects(query.qs[2])
  /\ \E row \in index : row \notin Selects(query.qs[2])

\* a comes strictly before b in byte order; a proper prefix comes first.
BytesBefore(a, b) ==
  \E i \in 1..(Len(b)) :
    /\ i <= Len(a) + 1
    /\ SubSeq(a, 1, i - 1) = SubSeq(b, 1, i - 1)
    /\ (i = Len(a) + 1 \/ CharCode(a[i]) < CharCode(b[i]))

\* C15: the returned list is in ascending order of domain and, within one
\* domain, of relative path, the empty relative path first.
C15_SortedByDomainThenPath ==
  Searched =>
    \A a, b \in 1..Len(files) :
      a < b =>
        \/ BytesBefore(files[a].domain, files[b].domain)
        \/ /\ files[a].domain = files[b].domain
           /\ \/ files[a].relative_path = files[b].relative_path
              \/ BytesBefore(files[a].relative_path, files[b].relative_path)

\* Witness of C15: three records came back, the two of domain "ab" after the
\* one of domain "Ab", the empty relative path before "d".
C15_Witness ==
  /\ Searched
  /\ Len(files) = 3
  /\ files[1].domain = <<"A", "b">>
  /\ files[2].domain = <<"a", "b">> /\ files[2].relative_path = <<>>
  /\ files[3].domain = <<"a", "b">> /\ files[3].relative_path = <<"d">>

\* The file id, domain and relative path of a row are ones FileId::new,
\* Domain::new and RelativePath::new accept; the lengths are lengths in bytes.
ValidRow(row) ==
  /\ len(row.file_id) = FileIdLen
  /\ \A k \in 1..Len(row.file_id) : row.file_id[k] \in HexDigits
  /\ row.domain # <<>> /\ len(row.domain) <= DomainMaxLen
  /\ row.relative_path = <<>> \/ Head(row.relative_path) \notin {"/", "\\"}

Selected == {row \in index : matches(query, row)}

\* C17 as stated: on a store that can be read the search returns Ok whatever
\* rows the index holds, so a failed search is a failure to reach the store.
C17_Original == pc = "searched" => ret = Ok \/ ret = Err("db")

\* C17: a search fails only when the store cannot be queried or when a row the
\* query selects has a file id, domain or relative path that the value
\* objects reject; a search that returns Ok returns every selected row, all of
\* them valid.
C17_FailsOnStoreOrInvalidRow ==
  pc = "searched" =>
    /\ ret \in {Ok, Err("db"), Err("to_domain")}
    /\ ret = Err("to_domain") => \E row \in Selected : ~ValidRow(row)
    /\ ret = Ok =>
         /\ \A row \in Selected : ValidRow(row)
         /\ Len(files) = Cardinality(Selected)

\* Witness of C17: the query selected the row with the empty domain next to a
\* valid one and the search failed in the conversion.
C17_Witness ==
  /\ pc = "searched"
  /\ ret = Err("to_domain")
  /\ \E row \in Selected : ~ValidRow(row)
  /\ \E row \in Selected : ValidRow(row)

\* ------------------------------------------------- the start of an extract
\* This step is a call of extract that got a query from its parameters.
ExtractCalled == pc = "idle" /\ op' = "extract" /\ query' # NoQuery

\* This step is extract going on with the answer of the repository.
SearchAnswered == op = "extract" /\ pc = "searching" /\ pc' # "searching"

SearchFailed == Err("Failed to search for files")

RootFailed == Err("Failed to create output directory")

\* The destination root is a directory.
RootIsDir(f) == OutputDir \in DOMAIN f /\ f[OutputDir].kind = "dir"

\* C18: when the query selects no record, extract returns Ok with both counts
\* zero and no errors without creating the destination root: neither the step
\* that hands the query to the repository nor the step that takes the empty
\* answer changes the file system.
C18_Step ==
  /\ ExtractCalled => pc' = "searching" /\ fs' = fs
  /\ SearchAnswered /\ ret' # SearchFailed /\ (\A row \in index : ~matches(query, row)) =>
       /\ pc' = "done"
       /\ ret' = Ok
       /\ result' = [extracted_count |-> 0, skipped_count |-> 0, errors |-> <<>>]
       /\ fs' = fs

C18_EmptyMatchTouchesNothing == [][C18_Step]_vars

\* Witness of C18: an extract on an index with records, none of them selected,
\* returned Ok with the zero result and the destination root still absent.
C18_Witness ==
  /\ pc = "done" /\ op = "extract"
  /\ ret = Ok
  /\ index # {}
  /\ \A row \in index : ~matches(query, row)
  /\ result = [extracted_count |-> 0, skipped_count |-> 0, errors |-> <<>>]
  /\ OutputDir \notin DOMAIN fs

\* C19: an extract whose index search failed returns that failure at once: the
\* call is over with an error instead of a result, no record was handled, and
\* the call has left the file system as it was, the destination root not
\* created and no blob copied.
C19_Step ==
  /\ ExtractCalled => files' = <<>> /\ log' = <<>> /\ fs' = fs
  /\ SearchAnswered /\ ret' = SearchFailed =>
       /\ pc' = "done"
       /\ files' = <<>> /\ log' = <<>>
       /\ fs' = fs

C19_SearchFailureIsFatal == [][C19_Step]_vars

\* Witness of C19: the search of an extract failed on an index whose records
\* the query selects, with their blobs present and the destination absent.
C19_Witness ==
  /\ pc = "done" /\ op = "extract"
  /\ ret = SearchFailed
  /\ \E row \in index : matches(query, row) /\ HasBlob(fs, to_domain(row).file)
  /\ OutputDir \notin DOMAIN fs

\* C20: with records selected, an extract that cannot create the destination
\* root fails as a whole before any record is handled, with no per-file error
\* recorded; a destination root that is a directory, or that is absent and can
\* be created, when the repository has answered lets the loop start.
C20_Step ==
  SearchAnswered /\ files' # <<>> =>
    IF RootIsDir(fs) \/ OutputDir \notin DOMAIN fs
      THEN pc' = "loop" /\ ret' = Pending /\ RootIsDir(fs')
      ELSE /\ pc' = "done"
           /\ ret' = RootFailed
           /\ result'.errors = <<>> /\ log' = <<>>
           /\ fs' = fs

C20_RootFailureIsFatal == [][C20_Step]_vars

\* Witness of C20: the destination root was a regular file, the query selected
\* records with blobs, and the call ended with the root error and no record
\* handled.
C20_Witness ==
  /\ pc = "done" /\ op = "extract"
  /\ ret = RootFailed
  /\ files # <<>>
  /\ \E k \in 1..Len(files) : HasBlob(fs, files[k])
  /\ fs[OutputDir].kind = "file"
  /\ log = <<>>

\* ------------------------------------------------------ the extraction loop
\* The positions of the handled records whose handling failed.
Failed == {k \in 1..Len(log) : IsError(log[k].r)}

\* The j-th of them in the order of the search result.
NthFailed(j) == CHOOSE k \in Failed : Cardinality({i \in Failed : i < k}) = j - 1

\* C21: the records are handled one at a time in the order of the search
\* result: once the loop has started exactly the first pos - 1 records have been
\* handled, each completely, and the entries of errors are those of the failed
\* records in that same order.
C21_HandledInSearchOrder ==
  op = "extract" /\ pos >= 1 =>
    /\ pos <= Len(files) + 1
    /\ Len(log) = pos - 1
    /\ Len(result.errors) = Cardinality(Failed)
    /\ \A j \in 1..Len(result.errors) :
         result.errors[j] =
           [file_id |-> files[NthFailed(j)].file_id,
            relative_path |-> files[NthFailed(j)].relative_path,
            error |-> log[NthFailed(j)].r]

\* Witness of C21: a finished extraction of three records in which the first
\* and the last failed and the one between them did not.
C21_Witness ==
  /\ pc = "done" /\ op = "extract" /\ ret = Ok
  /\ Len(files) = 3
  /\ Failed = {1, 3}
  /\ result.errors[1].file_id = files[1].file_id
  /\ result.errors[2].file_id = files[3].file_id

\* ------------------------------------------------------------ value objects
Constructed(name) == op = name /\ pc \in {"output", "again"}

\* The upper-case hexadecimal letter of a lower-case one.
UpperOf == [c \in {"a", "b", "c", "d", "e", "f"} |->
              CASE c = "a" -> "A" [] c = "b" -> "B" [] c = "c" -> "C"
                [] c = "d" -> "D" [] c = "e" -> "E" [] c = "f" -> "F"]

\* low is s with its upper-case hexadecimal letters in lower case.
IsLowerCaseOf(low, s) ==
  /\ Len(low) = Len(s)
  /\ \A k \in 1..Len(s) :
       \/ low[k] = s[k] /\ s[k] \notin {"A", "B", "C", "D", "E", "F"}
       \/ low[k] \in DOMAIN UpperOf /\ UpperOf[low[k]] = s[k]

\* C22: FileId::new accepts a string if and only if it is exactly 40
\* hexadecimal digits, so not the empty string; the stored value is the input
\* in lower case, and a FileId made from a stored value has that same value.
C22_FileIdIs40HexLowercased ==
  Constructed("FileId::new") =>
    /\ result.ok <=>
         (Len(params) = FileIdLen /\ \A k \in 1..Len(params) : params[k] \in HexDigits)
    /\ result.ok => IsLowerCaseOf(result.value, params)
    /\ pc = "again" => ret.ok /\ ret.value = result.value

\* Witness of C22: forty upper-case digits were accepted, stored in lower
\* case, and accepted again from the stored value.
C22_Witness ==
  /\ op = "FileId::new" /\ pc = "again"
  /\ params = Rep("F", FileIdLen)
  /\ result.value = Rep("f", FileIdLen)
  /\ ret = result

\* C23: Domain::new accepts a string if and only if it is non-empty and at
\* most 255 characters long, and stores the accepted string unchanged.
C23_DomainLength ==
  Constructed("Domain::new") =>
    /\ result.ok <=> (1 <= Len(params) /\ Len(params) <= DomainMaxLen)
    /\ result.ok => result.value = params

\* C24: RelativePath::new rejects a string if and only if its first character
\* is '/' or '\'; every other string, the empty one included, is accepted and
\* stored unchanged.
C24_RelativePathNotRooted ==
  Constructed("RelativePath::new") =>
    /\ ~result.ok <=> (params # <<>> /\ params[1] \in {"/", "\\"})
    /\ result.ok => result.value = params
    /\ params = <<>> => result.ok

\* Witness of C24: the empty string was accepted and stored as the empty
\* relative path.
C24_Witness ==
  /\ op = "RelativePath::new" /\ pc = "output"
  /\ params = <<>>
  /\ result = [ok |-> TRUE, value |-> <<>>]

\* Bit number n (from 0) of a flags value in 0..1023.
BitSet(v, n) == (v \div (2 ^ n)) % 2 = 1

\* The ten named predicates, in the order of their bits.
NamedPredicates(v) ==
  <<is_regular_file(v), is_directory(v), is_symbolic_link(v), is_hidden(v),
    is_system(v), is_archive(v), is_read_only(v), is_compressed(v),
    is_encrypted(v), is_sparse(v)>>

\* C25: FileFlags holds ten independent bits 1, 2, 4, ..., 512: converting an
\* i32 keeps exactly these ten bits of it and drops every other, each named
\* predicate is true if and only if its own bit is set, and every value in
\* 0..1023 converts to FileFlags and back to itself.
C25_FlagsAreTenBits ==
  Constructed("FileFlags::from") =>
    /\ result.value \in 0..(2 * SPARSE - 1)
    /\ result.value = params % (2 * SPARSE)
    /\ \A n \in 0..9 : NamedPredicates(result.value)[n + 1] <=> BitSet(result.value, n)
    /\ \A n \in 0..9 : DefinedFlags[n + 1] = 2 ^ n
    /\ params \in 0..(2 * SPARSE - 1) => ret.value = params

\* Witness of C25: a value with the bits 1 and 512 and the undefined bit 1024
\* became the flags 513, a sparse regular file and nothing else.
C25_Witness ==
  /\ op = "FileFlags::from" /\ pc = "output"
  /\ params = 2 * SPARSE + SPARSE + REGULAR_FILE
  /\ result.value = SPARSE + REGULAR_FILE
  /\ is_sparse(result.value) /\ is_regular_file(result.value)
  /\ ~is_directory(result.value) /\ ~is_encrypted(result.value)

\* The number of handled records with the outcome r.
Outcomes(r) == Cardinality({k \in 1..Len(log) : log[k].r = r})

\* C26: throughout an extraction extracted_count + skipped_count +
\* len(errors) is the number of records handled so far, each handled record
\* counted in exactly one of the three; when extract returns Ok the sum is the
\* number of records the search returned.
C26_CountsSumToHandled ==
  op = "extract" =>
    /\ result.extracted_count + result.skipped_count + Len(result.errors) = Len(log)
    /\ result.extracted_count = Outcomes("extracted")
    /\ result.skipped_count = Outcomes("skipped")
    /\ Len(result.errors) = Outcomes(MsgParent) + Outcomes(MsgCopy)
    /\ pc = "loop" => Len(log) = pos - 1
    /\ pc = "done" /\ ret = Ok =>
         result.extracted_count + result.skipped_count + Len(result.errors) = Len(files)

\* Witness of C26: a finished extraction of three records, one extracted, one
\* skipped and one failed.
C26_Witness ==
  /\ pc = "done" /\ op = "extract" /\ ret = Ok
  /\ Len(files) = 3
  /\ result.extracted_count = 1
  /\ result.skipped_count = 1
  /\ Len(result.errors) = 1

\* A record handled before the current one had the same relative path and
\* was extracted.
SamePathExtracted ==
  \E k \in 1..Len(log) :
    /\ files[k].relative_path = files[pos].relative_path
    /\ log[k].r = "extracted"

\* C27: the destination is destinationRoot/<relative path> whatever the domain
\* and file id. A record whose blob exists and whose destination already is a
\* file, left by an earlier record with the same relative path or there before
\* the call, is counted as extracted and not skipped, and the destination then
\* holds the bytes of this later record's blob.
C27_Step ==
  Handling /\ HasBlob(fs, files[pos]) /\ (DestIsFile(fs, files[pos]) \/ SamePathExtracted) =>
    /\ result' = [result EXCEPT !.extracted_count = @ + 1]
    /\ DestIsFile(fs', files[pos])
    /\ DestData(fs', files[pos]) = fs[BlobPath(files[pos])].data

C27_LaterRecordOverwrites == [][C27_Step]_vars

\* Witness of C27: two records with the same relative path, different file
\* ids and different blobs were both extracted, and the destination holds the
\* bytes of the second.
C27_Witness ==
  /\ pc = "done" /\ op = "extract"
  /\ Len(files) = 2
  /\ files[1].relative_path = files[2].relative_path
  /\ files[1].file_id # files[2].file_id
  /\ result.extracted_count = 2
  /\ DestData(fs, files[2]) = BlobData(files[2].file_id)
  /\ BlobData(files[2].file_id) # BlobData(files[1].file_id)

\* C28: for a record with the empty relative path whose blob exists, the
\* destination is the destination root itself, the copy onto that directory
\* fails, and the record becomes one entry of errors: extracted_count stays
\* and nothing is created.
C28_Step ==
  Handling /\ HasBlob(fs, files[pos]) /\ files[pos].relative_path = <<>> =>
    /\ Dest(files[pos]) = OutputDir
    /\ is_dir(fs, OutputDir)
    /\ result' = [result EXCEPT !.errors =
                    Append(@, [file_id |-> files[pos].file_id,
                               relative_path |-> <<>>,
                               error |-> "Failed to copy file"])]
    /\ fs' = fs

C28_EmptyPathIsCopyError == [][C28_Step]_vars

\* Witness of C28: the only matched record had the empty relative path and a
\* blob; the call returned Ok with one error and nothing extracted.
C28_Witness ==
  /\ pc = "done" /\ op = "extract" /\ ret = Ok
  /\ Len(files) = 1
  /\ files[1].relative_path = <<>>
  /\ HasBlob(fs, files[1])
  /\ result.extracted_count = 0 /\ result.skipped_count = 0
  /\ Len(result.errors) = 1
  /\ result.errors[1].error = "Failed to copy file"

\* C29: when no filter is present, search and extract return the builder's
\* error at once: the repository is not asked, so no query and no record
\* exist, and no directory or file is created.
C29_Step ==
  pc = "idle" /\ op' \in {"search", "extract"} /\ NoFilter(params') =>
    /\ ret' = Err("At least one search condition must be specified")
    /\ pc' = "done"
    /\ query' = NoQuery /\ files' = <<>> /\ log' = <<>>
    /\ fs' = fs

C29_BuilderErrorStopsTheCall == [][C29_Step]_vars

\* Witness of C29: search without any filter failed on an index with
\* records and blobs, and the destination root is still absent.
C29_Witness ==
  /\ pc = "done" /\ op = "search"
  /\ NoFilter(params)
  /\ ret.status = "Err"
  /\ files = <<>>
  /\ \E row \in index : HasBlob(fs, to_domain(row).file)
  /\ OutputDir \notin DOMAIN fs

\* ------------------------------------------------------------------ find_all
\* The immediate subdirectories of the backup root.
Subdirs == {p \in DOMAIN fs : Len(p) = 2 /\ p[1] = BackupRoot[1] /\ fs[p].kind = "dir"}

\* The text is a complete plist whose identifier is 25 letters, digits or
\* hyphens and whose date is a date.
ValidPlist(content) ==
  /\ Len(content) = 4
  /\ Len(content[1]) = MetadataIdLen
  /\ \A k \in 1..Len(content[1]) : is_alphanumeric(content[1][k]) \/ content[1][k] = "-"
  /\ content[4] \in {DateUtcMillis, DateJst}

\* The subdirectories holding a readable Info.plist with valid metadata.
ValidBackups ==
  {p \in Subdirs :
     /\ Append(p, InfoPlist) \in DOMAIN fs
     /\ fs[Append(p, InfoPlist)].kind = "file"
     /\ ValidPlist(fs[Append(p, InfoPlist)].data)}

\* 2024-01-15T10:30:00Z, the instant both date texts of the backups name:
\* day 19737 since 1970-01-01, second 37800 of that day.
BackupInstant == [days |-> 19737, secs |-> 37800, nanos |-> 0]

\* m is the metadata of the Info.plist in directory p.
IsMetadataOf(m, p) ==
  LET content == fs[Append(p, InfoPlist)].data
  IN /\ IsLowerCaseOf(m.id, content[1])
     /\ m.device_name = content[2]
     /\ m.product_name = content[3]
     /\ m.last_backup_date = BackupInstant

\* The list holds one entry for each of the valid backups and nothing else.
ExactlyTheValidBackups ==
  /\ Len(files) = Cardinality(ValidBackups)
  /\ \A p \in ValidBackups : \E k \in 1..Len(files) : IsMetadataOf(files[k], p)
  /\ \A k \in 1..Len(files) : \E p \in ValidBackups : IsMetadataOf(files[k], p)

\* C30 as stated: find_all, with no other task at work on the backup root,
\* fails exactly when the backup root does not exist, and otherwise returns the
\* metadata of exactly the valid backups.
C30_Original ==
  pc = "found" /\ changes = 0 =>
    /\ ret.status = "Err" <=> BackupRoot \notin DOMAIN fs
    /\ ret = Ok => ExactlyTheValidBackups

\* C30: find_all fails when the backup root does not exist or is not a
\* directory that can be read; otherwise it returns the metadata of exactly the
\* immediate subdirectories that hold a readable Info.plist which parses to
\* valid metadata: other entries are passed over and never make the call fail.
\* This is for a call during which no other task changes the backup root.
C30_FindAllSkipsInvalidEntries ==
  pc = "found" /\ changes = 0 =>
    /\ ret.status = "Err" <=> (BackupRoot \notin DOMAIN fs \/ fs[BackupRoot].kind # "dir")
    /\ BackupRoot \notin DOMAIN fs => ret = Err("Backup root directory does not exist")
    /\ ret = Ok => ExactlyTheValidBackups

\* Witness of C30: the root held a regular file, a directory without
\* Info.plist and a directory with a valid one, and find_all returned the one
\* metadata.
C30_Witness ==
  /\ pc = "found" /\ ret = Ok /\ changes = 0
  /\ Cardinality(Subdirs) = 2
  /\ \E p \in DOMAIN fs : Len(p) = 2 /\ fs[p].kind = "file"
  /\ \E p \in Subdirs : Append(p, InfoPlist) \notin DOMAIN fs
  /\ Len(files) = 1
  /\ files[1].device_name = "iPhone 15 Pro"

====
